---- MODULE Spec2Model ----
(***************************************************************************)
(* The task store, the admission path of the chat handlers and the agent   *)
(* manager loop of searcher-agent.                                         *)
(*                                                                         *)
(* Every "async with SessionLocal()" block of the source is a session on   *)
(* an SQLite file (aiosqlite).  A session takes no row lock and its        *)
(* UPDATE statements are keyed by primary key only, so a block that        *)
(* selects a row, decides, and commits later is modelled as a read step    *)
(* followed by a write step wherever another process can act in between.   *)
(***************************************************************************)
EXTENDS Integers, Sequences, FiniteSets, TLC

VARIABLES
    now,              \* wall clock, in whole days
    user,             \* table "user":       user id -> row
    user_task,        \* table "user_task":  sequence of rows, task id = index
    task_queue,       \* table "task_queue": task id -> row (task_id is unique)
    outbound,         \* table "task" (outbound messages): sequence of rows
    task_statistics,  \* table "task_statistics": the single row
    w_pc,             \* agent worker: position in main / _process_user_task
    w_task,           \* agent worker: id of the UserTask it holds (0 = none)
    w_success,        \* agent worker: task_success of _process_user_task
    h_pc,             \* chat handler: position in command_create_task / create_task_for_user
    h_user,           \* chat handler: the User object it holds (detached copy of the row)
    h_task,           \* chat handler: id of the task it created (0 = none)
    h_reply,          \* chat handler: the answer sent for the last message
    h_position        \* chat handler: queue_position of the TaskQueue object it holds (0 = none)

VARIABLES
    rl_now,            \* wall clock of the rate limiter, in seconds
    rate_limit_record, \* table "rate_limit_record": <<user id, action type>> -> row
    rl_reply,          \* rate_limit_check: the answer of the last check
    rl_passed          \* times of the checks allowed in the last minute, oldest first

VARIABLES
    arxiv_paper,     \* table "arxiv_paper": sequence of arxiv_id, paper id = index
    paper_analysis,  \* table "paper_analysis": sequence of rows, analysis id = index
    finding,         \* table "finding": sequence of rows
    p_pc,            \* agent worker: position in _persist_selected
    p_item,          \* agent worker: the selected item it is persisting
    p_paper          \* agent worker: id of the paper of that item (0 = none)

VARIABLES
    pl_pc,        \* run_pipeline: position
    pl_task,      \* run_pipeline: the PipelineTask and the configuration
    pl_plan,      \* the QueryPlan returned by generate_query_plan
    pl_queries,   \* collect_candidates: the queries it was given
    pl_next,      \* collect_candidates: index of the next query
    pl_collected, \* collect_candidates: the list "collected"
    pl_pages,     \* collect_candidates: the pages the adapters returned to this call
    pl_broadened, \* run_pipeline: the broadened queries were tried
    pl_raised,    \* the stage whose exception left run_pipeline, or "none"
    pl_errors     \* sources whose adapter failed during this run

VARIABLES
    rt_pc,          \* retry_async: position
    rt_attempts,    \* retry_async: the argument "attempts"
    rt_base_delay,  \* retry_async: the argument "base_delay", in tenths of a second
    rt_attempt,     \* retry_async: the loop variable "attempt"
    rt_delay,       \* retry_async: the local "delay"
    rt_last_error,  \* retry_async: the local "last_error"
    rt_calls,       \* the calls of func made, in order: the outcome of each
    rt_waits,       \* the sleeps made, in order: the delay of each
    rt_result       \* what retry_async returned or raised

VARIABLES
    an_pc,      \* analyze_candidates, per run: position
    an_sem,     \* analyze_candidates, per run: the free permits of its semaphore
    an_item     \* analyze_with_semaphore, per run and item: position

VARIABLES
    rc_pc,       \* check_rate_limit, per concurrent call: position
    rc_key,      \* check_rate_limit, per call: <<user id, action type>>
    rc_record,   \* check_rate_limit, per call: the object loaded at lines 31-39
    rc_extra,    \* table "rate_limit_record": the keys that have a second row
    rc_allowed   \* <<user id, action type>> -> number of checks that returned True

VARIABLES
    rk_pc,     \* rank_candidates: position
    rk_in,     \* rank_candidates: the candidates passed
    rk_top_k,  \* rank_candidates: top_k
    rk_out     \* rank_candidates: the list returned

VARIABLES
    dc_pc,        \* decision stage: position
    dc_min,       \* decision stage: task.min_relevance
    dc_in,        \* decision stage: the analyzed results passed to select_top
    dc_selected,  \* decision stage: the list select_top returned
    dc_report,    \* decision stage: the DecisionReport returned
    dc_llm        \* decision stage: how the call of the reporter agent ended

VARIABLES
    analysis_cache,  \* _analysis_cache: the entries in the order of the dict
    cache_clock      \* number of entries inserted so far

VARIABLES
    n_pc,       \* check_new_analyses: position in the loop
    n_last,     \* check_new_analyses: last_checked_id
    n_list,     \* check_new_analyses: ids listed by the poll, not yet handled
    n_cur,      \* check_new_analyses: id of the analysis being handled (0 = none)
    delivered,  \* analysis id -> number of reports sent to the user for it
    o_pc,       \* check_completed_tasks: position in the loop
    o_last,     \* check_completed_tasks: last_checked_id
    o_list,     \* check_completed_tasks: ids listed by the poll, not yet handled
    o_cur,      \* check_completed_tasks: id of the row being handled (0 = none)
    rendered,   \* outbound row id -> number of times it was sent to the user
    restarts    \* number of restarts of the bot process

base_vars == <<now, user, user_task, task_queue, outbound, task_statistics,
               w_pc, w_task, w_success, h_pc, h_user, h_task, h_reply,
               h_position>>
rate_vars == <<rl_now, rate_limit_record, rl_reply, rl_passed>>

paper_store == <<arxiv_paper, paper_analysis, finding>>
persist_vars == <<p_pc, p_item, p_paper>>

notifier_vars == <<n_pc, n_last, n_list, n_cur, delivered>>
sender_vars == <<o_pc, o_last, o_list, o_cur, rendered>>
bot_vars == <<notifier_vars, sender_vars, restarts>>

\* the variables outside the task store, its workers and its handlers
pipe_vars == <<pl_pc, pl_task, pl_plan, pl_queries, pl_next, pl_collected, pl_pages,
              pl_broadened, pl_raised, pl_errors>>

retry_vars == <<rt_pc, rt_attempts, rt_base_delay, rt_attempt, rt_delay, rt_last_error,
               rt_calls, rt_waits, rt_result>>

analyze_vars == <<an_pc, an_sem, an_item>>

cache_vars == <<analysis_cache, cache_clock>>

\* the state of the LLM stages of one agent or API process
llm_vars == <<retry_vars, analyze_vars, cache_vars>>

check_vars == <<rc_pc, rc_key, rc_record, rc_extra, rc_allowed>>

\* the state of the scenarios of single operations
rank_vars == <<rk_pc, rk_in, rk_top_k, rk_out>>

decide_vars == <<dc_pc, dc_min, dc_in, dc_selected, dc_report, dc_llm>>

aux_vars == <<check_vars, rank_vars, decide_vars>>

other_vars == <<rate_vars, paper_store, persist_vars, bot_vars, pipe_vars, llm_vars,
               aux_vars>>

vars == <<base_vars, other_vars>>

store == <<user, user_task, task_queue, outbound, task_statistics>>
worker_vars == <<w_pc, w_task, w_success>>
handler_vars == <<h_pc, h_user, h_task, h_reply, h_position>>

----------------------------------------------------------------------------
(* Bounds of the model *)

NumWorkers == 2
NumHandlers == 2
\* concurrent calls of check_rate_limit
NumCheckers == 2
\* candidates of one ranking, the levels of their scores and their dates
MaxRanked == 3
MaxScore == 1
MaxTimestamp == 2
\* analyzed results of one decision
MaxAnalyzed == 4
\* select_top and score_result
TopSelected == 3
SummaryBoost == 5
ScoreCeiling == 100
MaxTasks == 2
\* tasks created in the scenario of one user's day
MaxQuotaTasks == 6
\* the clock advances at most this many days
MaxDays == 1
\* the workers stop picking a task that has already run this many cycles
MaxCyclesRun == 2
\* the same, in the scenario of a single task
MaxCyclesOneTask == 5
\* arxiv ids the sources return, and tasks whose cycles select them
NumArxivIds == 2
NumPaperTasks == 2
\* the workers stop persisting when this many analyses are stored
MaxAnalyses == 3
\* the same, in the scenario of the stages of a cycle
ReportCyclesRun == 2
\* the bot process is restarted at most this many times
MaxRestarts == 1
\* the agent enqueues at most this many reports
MaxOutbound == 2
\* the rate limiter's clock moves in ticks of this many seconds, or by an hour
TickSeconds == 20
\* the ticks stop this many seconds after the start or after the last hour
MaxSeconds == 400
\* the rate limiter's clock moves by an hour at most this many times
MaxHours == 1
\* the same, in the scenario of one user's day
QuotaCyclesRun == 1

Workers == 1..NumWorkers
Handlers == 1..NumHandlers

----------------------------------------------------------------------------
(* Program constants *)

FreeDailyLimit == 5
FreeConcurrentLimit == 1
PremiumDailyLimit == 100
PremiumConcurrentLimit == 5
FreeMaxCycles == 5
PremiumMaxCycles == 100
FreePriority == 100
PremiumPriority == 50
MinDescription == 5
MaxDescription == 1000
InstantNotificationThreshold == 80
MinuteSeconds == 60
HourSeconds == 3600
DaySeconds == 86400
TaskCreatePerMinute == 2
TaskCreatePerHour == 10
TaskCreatePerDay == 50
CommandPerMinute == 10
CommandPerHour == 100
CommandPerDay == 500
MessagePerMinute == 20
MessagePerHour == 200
MessagePerDay == 1000

\* enums.py
QUEUED == "queued"
PROCESSING == "processing"
COMPLETED == "completed"
FAILED == "failed"
CANCELLED == "cancelled"
PAUSED == "paused"
ACTIVE == "active"
TaskStatus == {QUEUED, PROCESSING, COMPLETED, FAILED, CANCELLED, PAUSED, ACTIVE}
FREE == "free"
PREMIUM == "premium"

None == 0

----------------------------------------------------------------------------
(* Rows *)

Users == {1, 2, 3}

\* a row of "user" as get_or_create_user / upgrade_user_plan leave it
UserRow(id, plan, expires, banned) ==
    [id |-> id, plan |-> plan,
     daily_task_limit |-> IF plan = PREMIUM THEN PremiumDailyLimit ELSE FreeDailyLimit,
     concurrent_task_limit |->
         IF plan = PREMIUM THEN PremiumConcurrentLimit ELSE FreeConcurrentLimit,
     daily_tasks_created |-> 0, last_daily_reset |-> 1,
     plan_expires_at |-> expires, is_active |-> TRUE, is_banned |-> banned]

NoUser == [id |-> None]

TaskIds == 1..Len(user_task)

IsTerminal(s) == s \in {COMPLETED, FAILED, CANCELLED}

Reply(text, n) == <<text, n>>
NoReply == Reply("", 0)

----------------------------------------------------------------------------
(* shared/database/operations/queue.py *)

\* ORDER BY TaskQueue.priority ASC, TaskQueue.created_at ASC
QueueOrder(queue, a, b) ==
    \/ queue[a].priority < queue[b].priority
    \/ /\ queue[a].priority = queue[b].priority
       /\ queue[a].created_at < queue[b].created_at

\* SELECT ... FROM task_queue JOIN user_task WHERE user_task.status = 'queued'
QueuedEntries(tasks, queue) ==
    {t \in DOMAIN queue : tasks[t].status = QUEUED}

\* rank of entry t among the entries in S, by (priority, created_at)
RankIn(queue, S, t) ==
    1 + Cardinality({s \in S : QueueOrder(queue, s, t)})

\* update_queue_positions: renumber the entries of the queued tasks 1..n
update_queue_positions(tasks, queue) ==
    LET S == QueuedEntries(tasks, queue)
    IN  [t \in DOMAIN queue |->
            IF t \in S THEN [queue[t] EXCEPT !.queue_position = RankIn(queue, S, t)]
            ELSE queue[t]]

\* datetime.now() of a new entry: later than every stored created_at
NewCreatedAt(queue) ==
    IF DOMAIN queue = {} THEN 1
    ELSE 1 + (CHOOSE m \in {queue[t].created_at : t \in DOMAIN queue} :
                 \A t \in DOMAIN queue : queue[t].created_at <= m)

PlanPriority(plan) == IF plan = PREMIUM THEN PremiumPriority ELSE FreePriority

\* add_task_to_queue, lines 26-29: the number of the other entries, plus one.
\* This is the queue_position of the object add_task_to_queue returns: it is
\* refreshed at line 47, before update_queue_positions changes the row in
\* another session.
NewQueuePosition(queue, t) == Cardinality(DOMAIN queue \ {t}) + 1

\* add_task_to_queue: insert the entry, then update_queue_positions
add_task_to_queue(tasks, users, queue, t) ==
    LET entry == [priority |-> PlanPriority(users[tasks[t].user_id].plan),
                  queue_position |-> NewQueuePosition(queue, t),
                  created_at |-> NewCreatedAt(queue),
                  started_at |-> FALSE]
        added == [s \in DOMAIN queue \cup {t} |-> IF s = t THEN entry ELSE queue[s]]
    IN  update_queue_positions(tasks, added)

----------------------------------------------------------------------------
(* shared/database/operations/integration.py *)

\* the oldest queued entry, whatever its priority
NextQueuedTaskOldest(tasks, queue) ==
    LET S == QueuedEntries(tasks, queue)
    IN  IF S = {} THEN None
        ELSE CHOOSE t \in S : \A s \in S : queue[t].created_at <= queue[s].created_at

\* get_next_queued_task: first row of the join ordered by (priority, created_at)
NextQueuedTask(tasks, queue) ==
    LET S == QueuedEntries(tasks, queue)
    IN  IF S = {} THEN None
        ELSE CHOOSE t \in S : \A s \in S \ {t} : QueueOrder(queue, t, s)

\* _notify_cycle_limit_reached: one outbound row, created with status completed
CycleLimitNotification(tasks, t) ==
    [task_type |-> "cycle_limit_notification", user_id |-> tasks[t].user_id,
     task_id |-> t, status |-> "completed"]

\* update_task_statistics changes the object returned by
\* get_or_create_task_statistics, which belongs to a session that is already
\* closed, and commits its own empty session: the stored row stays as it is.
update_task_statistics(stats, success) == stats

\* a completion that counts the failed cycle too
complete_task_processing_counting(tasks, queue, out, stats, t, success) ==
    <<[tasks EXCEPT ![t].cycles_completed = @ + 1,
                    ![t].status = IF success /\ @ # FAILED THEN QUEUED ELSE FAILED],
      IF success THEN queue ELSE [s \in DOMAIN queue \ {t} |-> queue[s]],
      out,
      stats>>

\* complete_task_processing, as the new <<user_task, task_queue, outbound,
\* task_statistics>>.  The status of the task is not looked at.
complete_task_processing(tasks, queue, out, stats, t, success) ==
    LET cycles == tasks[t].cycles_completed + 1
        without == [s \in DOMAIN queue \ {t} |-> queue[s]]
    IN  IF success
        THEN IF cycles >= tasks[t].max_cycles
             THEN <<[tasks EXCEPT ![t].cycles_completed = cycles,
                                  ![t].status = COMPLETED],
                    without,
                    Append(out, CycleLimitNotification(
                        [tasks EXCEPT ![t].cycles_completed = cycles], t)),
                    update_task_statistics(stats, success)>>
             ELSE <<[tasks EXCEPT ![t].cycles_completed = cycles,
                                  ![t].status = QUEUED],
                    [s \in DOMAIN queue |->
                        IF s = t THEN [queue[s] EXCEPT !.started_at = FALSE]
                        ELSE queue[s]],
                    out,
                    update_task_statistics(stats, success)>>
        ELSE <<[tasks EXCEPT ![t].status = FAILED],
               without,
               out,
               update_task_statistics(stats, success)>>

\* cleanup_orphaned_queue_entries: entries of completed and failed tasks
cleanup_orphaned_queue_entries(tasks, queue) ==
    [s \in {t \in DOMAIN queue : tasks[t].status \notin {COMPLETED, FAILED}}
        |-> queue[s]]

----------------------------------------------------------------------------
(* agent/manager.py: main and _process_user_task, one worker process each *)

\* main: cleanup on startup
agent_startup(w) ==
    /\ w_pc[w] = "startup"
    /\ task_queue' = cleanup_orphaned_queue_entries(user_task, task_queue)
    /\ w_pc' = [w_pc EXCEPT ![w] = "poll"]
    /\ UNCHANGED <<now, user, user_task, outbound, task_statistics,
                   w_task, w_success, handler_vars, other_vars>>

\* main: task = await get_next_queued_task(); an empty queue sleeps and polls again
get_next_queued_task(w, cap) ==
    /\ w_pc[w] = "poll"
    /\ LET t == NextQueuedTask(user_task, task_queue)
       IN  /\ t # None
           /\ user_task[t].cycles_completed < cap
           /\ w_task' = [w_task EXCEPT ![w] = t]
    /\ w_pc' = [w_pc EXCEPT ![w] = "start"]
    /\ UNCHANGED <<now, store, w_success, handler_vars, other_vars>>

\* start_task_processing, lines 49-51: read the row and test its status.  On
\* False, _process_user_task returns from inside its try block, so its finally
\* block still runs complete_task_processing(id, task_success = False).
start_task_processing_read(w) ==
    /\ w_pc[w] = "start"
    /\ w_pc' = [w_pc EXCEPT ![w] =
                   IF user_task[w_task[w]].status = QUEUED
                   THEN "start_commit" ELSE "skipped"]
    /\ UNCHANGED <<now, store, w_task, w_success, handler_vars, other_vars>>

\* start_task_processing, lines 53-67: UPDATE by primary key and commit
start_task_processing_commit(w) ==
    /\ w_pc[w] = "start_commit"
    /\ user_task' = [user_task EXCEPT ![w_task[w]].status = PROCESSING]
    /\ task_queue' = [s \in DOMAIN task_queue |->
                         IF s = w_task[w]
                         THEN [task_queue[s] EXCEPT !.started_at = TRUE]
                         ELSE task_queue[s]]
    /\ w_pc' = [w_pc EXCEPT ![w] = "pipeline"]
    /\ UNCHANGED <<now, user, outbound, task_statistics,
                   w_task, w_success, handler_vars, other_vars>>

\* _process_user_task, lines 214-278: the cycle ends with task_success True,
\* or an exception leaves it False
run_pipeline(w) ==
    /\ w_pc[w] = "pipeline"
    /\ \E ok \in BOOLEAN : w_success' = [w_success EXCEPT ![w] = ok]
    /\ w_pc' = [w_pc EXCEPT ![w] = "complete"]
    /\ UNCHANGED <<now, store, w_task, handler_vars, other_vars>>

\* _process_user_task, finally block: complete_task_processing(id, task_success)
process_user_task_finally(w) ==
    /\ w_pc[w] \in {"complete", "skipped"}
    /\ LET r == complete_task_processing(user_task, task_queue, outbound,
                                         task_statistics, w_task[w], w_success[w])
       IN  /\ user_task' = r[1]
           /\ task_queue' = r[2]
           /\ outbound' = r[3]
           /\ task_statistics' = r[4]
    /\ w_pc' = [w_pc EXCEPT ![w] = "poll"]
    /\ w_task' = [w_task EXCEPT ![w] = None]
    /\ w_success' = [w_success EXCEPT ![w] = FALSE]
    /\ UNCHANGED <<now, user, handler_vars, other_vars>>

\* main: the worker process stops during a cycle of its task, after
\* start_task_processing and before complete_task_processing, and is started
\* again.  Its task and task_success are local to the process and are lost;
\* the database keeps what was committed.
worker_stops(w) ==
    /\ w_pc[w] \in {"pipeline", "complete"}
    /\ w_pc' = [w_pc EXCEPT ![w] = "startup"]
    /\ w_task' = [w_task EXCEPT ![w] = None]
    /\ w_success' = [w_success EXCEPT ![w] = FALSE]
    /\ UNCHANGED <<now, store, handler_vars, other_vars>>

----------------------------------------------------------------------------
(* shared/database/operations/user.py *)

\* count of the user's tasks whose status is queued or processing
ActiveTasks(tasks, uid) ==
    Cardinality({t \in DOMAIN tasks :
        tasks[t].user_id = uid /\ tasks[t].status \in {QUEUED, PROCESSING}})

\* reset_daily_counters_if_needed: tested on the caller's object, tested again
\* on the re-fetched row; the row is reset and returned, else the caller's
\* object comes back
ResetNeeded(users, clock, u) ==
    /\ clock - u.last_daily_reset >= 1
    /\ clock - users[u.id].last_daily_reset >= 1

\* a reset that does not look at last_daily_reset
reset_daily_counters_always(users, clock, u) ==
    [users EXCEPT ![u.id].daily_tasks_created = 0,
                  ![u.id].last_daily_reset = clock]

reset_daily_counters_if_needed(users, clock, u) ==
    IF ResetNeeded(users, clock, u)
    THEN [users EXCEPT ![u.id].daily_tasks_created = 0,
                       ![u.id].last_daily_reset = clock]
    ELSE users

\* check_user_can_create_task(u) on the caller's object u:
\* [allowed, reason, users]: the answer and the table "user" afterwards
check_user_can_create_task(users, tasks, clock, u) ==
    IF u.is_banned
    THEN [allowed |-> FALSE, reason |-> Reply("Account banned", 0), users |-> users]
    ELSE IF ~u.is_active
    THEN [allowed |-> FALSE, reason |-> Reply("Account deactivated", 0), users |-> users]
    ELSE IF u.plan = PREMIUM /\ u.plan_expires_at # None /\ clock > u.plan_expires_at
    THEN [allowed |-> FALSE, reason |-> Reply("Premium plan expired", 0), users |-> users]
    ELSE
      LET after == reset_daily_counters_if_needed(users, clock, u)
          cur == IF ResetNeeded(users, clock, u) THEN after[u.id] ELSE u
      IN  IF cur.daily_tasks_created >= cur.daily_task_limit
          THEN [allowed |-> FALSE,
                reason |-> Reply("Daily task limit reached", cur.daily_task_limit),
                users |-> after]
          ELSE IF ActiveTasks(tasks, cur.id) >= cur.concurrent_task_limit
          THEN [allowed |-> FALSE,
                reason |-> Reply("Concurrent task limit reached", cur.concurrent_task_limit),
                users |-> after]
          ELSE [allowed |-> TRUE, reason |-> Reply("OK", 0), users |-> after]

----------------------------------------------------------------------------
(* shared/database/operations/task.py *)

PlanMaxCycles(plan) == IF plan = PREMIUM THEN PremiumMaxCycles ELSE FreeMaxCycles

\* create_user_task_with_queue, lines 26-39: the new row, committed
NewUserTask(u) ==
    [user_id |-> u.id, status |-> QUEUED, cycles_completed |-> 0,
     max_cycles |-> PlanMaxCycles(u.plan)]

\* create_user_task_with_queue, lines 45-48: the caller's object is
\* incremented and merged, which writes every column of it over the row
MergeIncremented(users, u) ==
    [users EXCEPT ![u.id] = [u EXCEPT !.daily_tasks_created = @ + 1]]

\* update_user_task_status_for_user
update_user_task_status_for_user(tasks, uid, t, status) ==
    IF t \notin DOMAIN tasks \/ tasks[t].user_id # uid
    THEN tasks
    ELSE [tasks EXCEPT ![t].status = status]

----------------------------------------------------------------------------
(* bot/handlers/task.py: command_create_task and create_task_for_user, one
   handler per message being processed *)

DescriptionLengths == {MinDescription - 1, MinDescription, MaxDescription + 1}

\* command_create_task: user = await get_or_create_user(...)
get_or_create_user(h, uid) ==
    /\ h_pc[h] = "idle"
    /\ h_user' = [h_user EXCEPT ![h] = user[uid]]
    /\ h_reply' = [h_reply EXCEPT ![h] = NoReply]
    /\ h_position' = [h_position EXCEPT ![h] = None]
    /\ h_pc' = [h_pc EXCEPT ![h] = "check"]
    /\ UNCHANGED <<now, store, worker_vars, h_task, other_vars>>

\* create_task_for_user, lines 171-194: admission, then the description
create_task_for_user_check(h, len) ==
    /\ h_pc[h] = "check"
    /\ LET r == check_user_can_create_task(user, user_task, now, h_user[h])
           answer == IF ~r.allowed THEN r.reason
                     ELSE IF len < MinDescription THEN Reply("Description too short", 0)
                     ELSE IF len > MaxDescription THEN Reply("Description too long", 0)
                     ELSE NoReply
       IN  /\ user' = r.users
           /\ h_reply' = [h_reply EXCEPT ![h] = answer]
           /\ h_pc' = [h_pc EXCEPT ![h] = IF answer = NoReply THEN "create" ELSE "idle"]
           /\ h_user' = [h_user EXCEPT ![h] = IF answer = NoReply THEN @ ELSE NoUser]
    /\ UNCHANGED <<now, user_task, task_queue, outbound, task_statistics,
                   worker_vars, h_task, h_position, other_vars>>

\* create_user_task_with_queue, lines 26-39: insert the task row and commit
create_user_task_row(h, limit) ==
    /\ h_pc[h] = "create"
    /\ Len(user_task) < limit
    /\ user_task' = Append(user_task, NewUserTask(h_user[h]))
    /\ h_task' = [h_task EXCEPT ![h] = Len(user_task) + 1]
    /\ h_pc' = [h_pc EXCEPT ![h] = "enqueue"]
    /\ UNCHANGED <<now, user, task_queue, outbound, task_statistics,
                   worker_vars, h_user, h_reply, h_position, other_vars>>

\* create_user_task_with_queue, line 42: add_task_to_queue(task)
create_user_task_enqueue(h) ==
    /\ h_pc[h] = "enqueue"
    /\ task_queue' = add_task_to_queue(user_task, user, task_queue, h_task[h])
    /\ h_position' = [h_position EXCEPT ![h] = NewQueuePosition(task_queue, h_task[h])]
    /\ h_pc' = [h_pc EXCEPT ![h] = "increment"]
    /\ UNCHANGED <<now, user, user_task, outbound, task_statistics,
                   worker_vars, h_user, h_task, h_reply, other_vars>>

\* create_user_task_with_queue, lines 45-48: increment, merge, commit
create_user_task_increment(h) ==
    /\ h_pc[h] = "increment"
    /\ user' = MergeIncremented(user, h_user[h])
    /\ h_user' = [h_user EXCEPT ![h].daily_tasks_created = @ + 1]
    /\ h_pc' = [h_pc EXCEPT ![h] = "created"]
    /\ UNCHANGED <<now, user_task, task_queue, outbound, task_statistics,
                   worker_vars, h_task, h_reply, h_position, other_vars>>

\* create_task_for_user, lines 199-237: update_queue_positions and the answer
create_task_for_user_answer(h) ==
    /\ h_pc[h] = "created"
    /\ task_queue' = update_queue_positions(user_task, task_queue)
    /\ h_reply' = [h_reply EXCEPT ![h] = Reply("Task created", h_task[h])]
    /\ h_pc' = [h_pc EXCEPT ![h] = "idle"]
    /\ h_user' = [h_user EXCEPT ![h] = NoUser]
    /\ h_task' = [h_task EXCEPT ![h] = None]
    /\ UNCHANGED <<now, user, user_task, outbound, task_statistics, worker_vars,
                   h_position, other_vars>>

\* create_task_for_user, lines 243-245: a database error raised inside
\* create_user_task_with_queue after its first commit is caught and answered
create_task_for_user_error(h) ==
    /\ h_pc[h] \in {"enqueue", "increment"}
    /\ h_reply' = [h_reply EXCEPT ![h] = Reply("An error occurred while creating the task", 0)]
    /\ h_pc' = [h_pc EXCEPT ![h] = "idle"]
    /\ h_user' = [h_user EXCEPT ![h] = NoUser]
    /\ h_task' = [h_task EXCEPT ![h] = None]
    /\ h_position' = [h_position EXCEPT ![h] = None]
    /\ UNCHANGED <<now, store, worker_vars, other_vars>>

\* a status change asked for by the owner of a task (/pause_task, /resume_task)
UserStatuses == {PAUSED, ACTIVE}

user_changes_status(uid, t, status) ==
    /\ t \in TaskIds
    /\ user_task[t].user_id = uid
    /\ user_task' = update_user_task_status_for_user(user_task, uid, t, status)
    /\ UNCHANGED <<now, user, task_queue, outbound, task_statistics,
                   worker_vars, handler_vars, other_vars>>

\* a day passes
day_passes ==
    /\ now <= MaxDays
    /\ now' = now + 1
    /\ UNCHANGED <<store, worker_vars, handler_vars, other_vars>>

----------------------------------------------------------------------------
(* shared/database/operations/rate_limit.py and rate_limit_check of
   bot/handlers/task.py *)

\* limits.get(action_type, limits["message"])
RateLimits(action_type) ==
    IF action_type = "task_create"
    THEN [minute |-> TaskCreatePerMinute, hour |-> TaskCreatePerHour,
          day |-> TaskCreatePerDay]
    ELSE IF action_type = "command"
    THEN [minute |-> CommandPerMinute, hour |-> CommandPerHour,
          day |-> CommandPerDay]
    ELSE [minute |-> MessagePerMinute, hour |-> MessagePerHour,
          day |-> MessagePerDay]

\* the row inserted for the first check of a user and an action type
NewRateLimitRecord(clock) ==
    [count_per_minute |-> 1, count_per_hour |-> 1, count_per_day |-> 1,
     minute_reset_at |-> clock, hour_reset_at |-> clock, day_reset_at |-> clock]

\* lines 55-65: counters of the windows that have passed, reset on the object
ResetWindows(r, clock) ==
    LET m == IF clock - r.minute_reset_at >= MinuteSeconds
             THEN [r EXCEPT !.count_per_minute = 0, !.minute_reset_at = clock]
             ELSE r
        h == IF clock - m.hour_reset_at >= HourSeconds
             THEN [m EXCEPT !.count_per_hour = 0, !.hour_reset_at = clock]
             ELSE m
    IN  IF clock - h.day_reset_at >= DaySeconds
        THEN [h EXCEPT !.count_per_day = 0, !.day_reset_at = clock]
        ELSE h

RateLimitExceeded(n, action_type, window) ==
    <<"Rate limit exceeded", n, action_type, window>>

\* a check that commits the reset of the windows also when it rejects
check_rate_limit_keeping_resets(records, clock, uid, action_type) ==
    LET key == <<uid, action_type>>
        lim == RateLimits(action_type)
        r == ResetWindows(records[key], clock)
        kept == [records EXCEPT ![key] = r]
    IN  IF key \notin DOMAIN records
        THEN [allowed |-> TRUE, reason |-> <<"OK">>,
              records |-> [k \in DOMAIN records \cup {key} |->
                              IF k = key THEN NewRateLimitRecord(clock)
                              ELSE records[k]]]
        ELSE IF r.count_per_minute >= lim.minute
        THEN [allowed |-> FALSE, records |-> kept,
              reason |-> RateLimitExceeded(lim.minute, action_type, "minute")]
        ELSE IF r.count_per_hour >= lim.hour
        THEN [allowed |-> FALSE, records |-> kept,
              reason |-> RateLimitExceeded(lim.hour, action_type, "hour")]
        ELSE IF r.count_per_day >= lim.day
        THEN [allowed |-> FALSE, records |-> kept,
              reason |-> RateLimitExceeded(lim.day, action_type, "day")]
        ELSE [allowed |-> TRUE, reason |-> <<"OK">>,
              records |-> [records EXCEPT ![key] =
                              [r EXCEPT !.count_per_minute = @ + 1,
                                        !.count_per_hour = @ + 1,
                                        !.count_per_day = @ + 1]]]

\* check_rate_limit(user_id, action_type): [allowed, reason, records]; a
\* rejection returns before the commit, so the session drops the resets
check_rate_limit(records, clock, uid, action_type) ==
    LET key == <<uid, action_type>>
        lim == RateLimits(action_type)
        r == ResetWindows(records[key], clock)
    IN  IF key \notin DOMAIN records
        THEN [allowed |-> TRUE, reason |-> <<"OK">>,
              records |-> [k \in DOMAIN records \cup {key} |->
                              IF k = key THEN NewRateLimitRecord(clock)
                              ELSE records[k]]]
        ELSE IF r.count_per_minute >= lim.minute
        THEN [allowed |-> FALSE, records |-> records,
              reason |-> RateLimitExceeded(lim.minute, action_type, "minute")]
        ELSE IF r.count_per_hour >= lim.hour
        THEN [allowed |-> FALSE, records |-> records,
              reason |-> RateLimitExceeded(lim.hour, action_type, "hour")]
        ELSE IF r.count_per_day >= lim.day
        THEN [allowed |-> FALSE, records |-> records,
              reason |-> RateLimitExceeded(lim.day, action_type, "day")]
        ELSE [allowed |-> TRUE, reason |-> <<"OK">>,
              records |-> [records EXCEPT ![key] =
                              [r EXCEPT !.count_per_minute = @ + 1,
                                        !.count_per_hour = @ + 1,
                                        !.count_per_day = @ + 1]]]

\* the last three elements of a sequence
LastThree(seq) ==
    IF Len(seq) <= 3 THEN seq ELSE SubSeq(seq, Len(seq) - 2, Len(seq))

\* rate_limit_check(message, action_type) of the handlers
rate_limit_check(uid, action_type) ==
    /\ LET r == check_rate_limit(rate_limit_record, rl_now, uid, action_type)
       IN  /\ rate_limit_record' = r.records
           /\ rl_reply' = r.reason
           /\ rl_passed' = IF r.allowed THEN LastThree(Append(rl_passed, rl_now))
                           ELSE rl_passed
    /\ UNCHANGED <<pipe_vars, aux_vars, llm_vars, rl_now, base_vars, paper_store, persist_vars, bot_vars>>

\* time passes between two messages; the allowed checks that are now a
\* minute old or older are forgotten
seconds_pass(d) ==
    /\ \/ d = TickSeconds /\ (rl_now % HourSeconds) + d <= MaxSeconds
       \/ d = HourSeconds /\ rl_now < MaxHours * HourSeconds
    /\ rl_now' = rl_now + d
    /\ rl_passed' = SelectSeq(rl_passed, LAMBDA t : rl_now + d - t < MinuteSeconds)
    /\ UNCHANGED <<pipe_vars, aux_vars, llm_vars, rate_limit_record, rl_reply, base_vars, paper_store, persist_vars, bot_vars>>

\* check_rate_limit called concurrently (handlers of one bot process at their
\* awaits, or several processes): the SELECT of lines 31-39 and the commit of
\* line 51 or 91 are two steps.  The clock stands still in this scenario, so
\* every check falls into the windows of the first one.
Checkers == 1..NumCheckers
CheckKeys == {1, 2} \X {"task_create"}

\* lines 31-39 with two rows of the key stored: scalar_one_or_none raises
\* MultipleResultsFound and the check ends without an answer
check_rate_limit_raises(c, key) ==
    /\ rc_pc[c] = "idle"
    /\ key \in rc_extra
    /\ UNCHANGED vars

\* lines 31-39: record = result.scalar_one_or_none()
check_rate_limit_select(c, key) ==
    /\ rc_pc[c] = "idle"
    /\ key \notin rc_extra
    /\ rc_key' = [rc_key EXCEPT ![c] = key]
    /\ rc_record' = [rc_record EXCEPT ![c] =
                        IF key \in DOMAIN rate_limit_record
                        THEN [found |-> TRUE, row |-> rate_limit_record[key]]
                        ELSE [found |-> FALSE, row |-> NewRateLimitRecord(rl_now)]]
    /\ rc_pc' = [rc_pc EXCEPT ![c] = "loaded"]
    /\ UNCHANGED <<base_vars, rate_vars, paper_store, persist_vars, bot_vars,
                   pipe_vars, llm_vars, rank_vars, decide_vars, rc_extra,
                   rc_allowed>>

\* lines 41-92 on the loaded object: the INSERT of a new row (the table has no
\* unique index on user_id and action_type, models.py:107) or the UPDATE of
\* the row with the values computed from the loaded ones
check_rate_limit_commit(c) ==
    /\ rc_pc[c] = "loaded"
    /\ LET key == rc_key[c]
           found == rc_record[c].found
           loaded == [k \in (IF found THEN {key} ELSE {}) |-> rc_record[c].row]
           r == check_rate_limit(loaded, rl_now, key[1], key[2])
           second == ~found /\ key \in DOMAIN rate_limit_record
       IN  /\ rate_limit_record' =
                  IF ~r.allowed \/ second THEN rate_limit_record
                  ELSE [k \in DOMAIN rate_limit_record \cup {key} |->
                           IF k = key THEN r.records[key] ELSE rate_limit_record[k]]
           /\ rc_extra' = IF second THEN rc_extra \cup {key} ELSE rc_extra
           /\ rc_allowed' = IF r.allowed THEN [rc_allowed EXCEPT ![key] = @ + 1]
                             ELSE rc_allowed
           /\ rl_reply' = r.reason
           /\ rl_passed' = IF r.allowed THEN LastThree(Append(rl_passed, rl_now))
                           ELSE rl_passed
    /\ rc_pc' = [rc_pc EXCEPT ![c] = "idle"]
    /\ UNCHANGED <<base_vars, rl_now, paper_store, persist_vars, bot_vars,
                   pipe_vars, llm_vars, rank_vars, decide_vars, rc_key,
                   rc_record>>

----------------------------------------------------------------------------
(* agent/manager.py: _persist_selected, with the operations of
   shared/database/operations/paper.py it calls *)

ArxivIds == 1..NumArxivIds
PaperTasks == 1..NumPaperTasks

\* relevance of a selected item, below and above the threshold of the
\* instant notifications
LowRelevance == 50
HighRelevance == 90
Relevances == {LowRelevance, HighRelevance}

NoItem == [task_id |-> None]

\* get_arxiv_paper_by_arxiv_id: the id of the paper, or None
get_arxiv_paper_by_arxiv_id(papers, arxiv_id) ==
    IF \E i \in DOMAIN papers : papers[i] = arxiv_id
    THEN CHOOSE i \in DOMAIN papers : papers[i] = arxiv_id
    ELSE None

\* an insert into a table that has no unique index on arxiv_id
create_arxiv_paper_not_unique(papers, arxiv_id) ==
    [ok |-> TRUE, papers |-> Append(papers, arxiv_id)]

\* create_arxiv_paper: INSERT; arxiv_paper.arxiv_id is unique, so the commit
\* raises IntegrityError when a row with this arxiv_id is stored
create_arxiv_paper(papers, arxiv_id) ==
    IF get_arxiv_paper_by_arxiv_id(papers, arxiv_id) # None
    THEN [ok |-> FALSE, papers |-> papers]
    ELSE [ok |-> TRUE, papers |-> Append(papers, arxiv_id)]

\* the research topic of a task (create_research_topic_for_user_task finds
\* the topic of the task's owner and description again in later cycles)
TopicOf(t) == t

\* create_paper_analysis: INSERT with status "analyzed"
create_paper_analysis(analyses, paper_id, topic_id, relevance) ==
    Append(analyses, [paper_id |-> paper_id, topic_id |-> topic_id,
                      relevance |-> relevance, status |-> "analyzed"])

\* link_analysis_to_user_task: INSERT of a Finding
link_analysis_to_user_task(findings, task_id, paper_id) ==
    Append(findings, [task_id |-> task_id, paper_id |-> paper_id])

\* for s in output.selected: a cycle of task t has selected the item arxiv_id
persist_selected_item(w, t, arxiv_id, relevance) ==
    /\ p_pc[w] = "idle"
    /\ Len(paper_analysis) < MaxAnalyses
    /\ p_item' = [p_item EXCEPT ![w] = [task_id |-> t, arxiv_id |-> arxiv_id,
                                        relevance |-> relevance]]
    /\ p_pc' = [p_pc EXCEPT ![w] = "lookup"]
    /\ UNCHANGED <<pipe_vars, llm_vars, base_vars, rate_vars, aux_vars, bot_vars, paper_store, p_paper>>

\* lines 142-143: existing = await get_arxiv_paper_by_arxiv_id(c.arxiv_id)
persist_lookup(w) ==
    /\ p_pc[w] = "lookup"
    /\ LET existing == get_arxiv_paper_by_arxiv_id(arxiv_paper, p_item[w].arxiv_id)
       IN  /\ p_paper' = [p_paper EXCEPT ![w] = existing]
           /\ p_pc' = [p_pc EXCEPT ![w] =
                          IF existing = None THEN "create_paper" ELSE "create_analysis"]
    /\ UNCHANGED <<pipe_vars, llm_vars, base_vars, rate_vars, aux_vars, bot_vars, paper_store, p_item>>

\* lines 144-163: paper = await create_arxiv_paper({...}); an IntegrityError
\* leaves _persist_selected and fails the cycle
persist_create_paper(w) ==
    /\ p_pc[w] = "create_paper"
    /\ LET r == create_arxiv_paper(arxiv_paper, p_item[w].arxiv_id)
       IN  /\ arxiv_paper' = r.papers
           /\ p_paper' = [p_paper EXCEPT ![w] = IF r.ok THEN Len(r.papers) ELSE None]
           /\ p_pc' = [p_pc EXCEPT ![w] = IF r.ok THEN "create_analysis" ELSE "idle"]
           /\ p_item' = [p_item EXCEPT ![w] = IF r.ok THEN @ ELSE NoItem]
    /\ UNCHANGED <<pipe_vars, llm_vars, base_vars, rate_vars, aux_vars, bot_vars, paper_analysis, finding>>

\* lines 167-175: analysis = await create_paper_analysis(...)
persist_create_analysis(w) ==
    /\ p_pc[w] = "create_analysis"
    /\ paper_analysis' = create_paper_analysis(paper_analysis, p_paper[w],
                                               TopicOf(p_item[w].task_id),
                                               p_item[w].relevance)
    /\ p_pc' = [p_pc EXCEPT ![w] = "link"]
    /\ UNCHANGED <<pipe_vars, llm_vars, base_vars, rate_vars, aux_vars, bot_vars, arxiv_paper, finding, p_item, p_paper>>

\* lines 177-180: await link_analysis_to_user_task(analysis, user_task)
persist_link(w) ==
    /\ p_pc[w] = "link"
    /\ finding' = link_analysis_to_user_task(finding, p_item[w].task_id, p_paper[w])
    /\ p_pc' = [p_pc EXCEPT ![w] = "idle"]
    /\ p_item' = [p_item EXCEPT ![w] = NoItem]
    /\ p_paper' = [p_paper EXCEPT ![w] = None]
    /\ UNCHANGED <<pipe_vars, llm_vars, base_vars, rate_vars, aux_vars, bot_vars, arxiv_paper, paper_analysis>>

PersistStep(w, relevances) ==
    \/ \E t \in PaperTasks, a \in ArxivIds, r \in relevances :
           persist_selected_item(w, t, a, r)
    \/ persist_lookup(w)
    \/ persist_create_paper(w)
    \/ persist_create_analysis(w)
    \/ persist_link(w)

----------------------------------------------------------------------------
(* bot/handlers/notifications/service.py: check_new_analyses and
   send_analysis_report, one background task of the bot process *)

Max(a, b) == IF a >= b THEN a ELSE b

Min(a, b) == IF a <= b THEN a ELSE b

\* f with the count of k raised by one
Bump(f, k) ==
    [i \in DOMAIN f \cup {k} |-> IF i = k THEN (IF k \in DOMAIN f THEN f[k] ELSE 0) + 1
                                 ELSE f[i]]

Count(f, k) == IF k \in DOMAIN f THEN f[k] ELSE 0

\* the ids in S as a sequence in ascending order
RECURSIVE Ascending(_)
Ascending(S) ==
    IF S = {} THEN <<>>
    ELSE LET m == CHOOSE x \in S : \A y \in S : x <= y
         IN  <<m>> \o Ascending(S \ {m})

\* list_new_analyses_since(last_id, 0.0): status "analyzed", id > last_id,
\* in the order of created_at
list_new_analyses_since(analyses, last_id) ==
    Ascending({i \in DOMAIN analyses : i > last_id /\ analyses[i].status = "analyzed"})

\* mark_analysis_queued / mark_analysis_notified: the status is set whatever
\* it was
mark_analysis(analyses, id, status) ==
    IF id \in DOMAIN analyses THEN [analyses EXCEPT ![id].status = status]
    ELSE analyses

\* analyses = await list_new_analyses_since(last_checked_id, 0.0)
notifier_poll ==
    /\ n_pc = "poll"
    /\ n_list' = list_new_analyses_since(paper_analysis, n_last)
    /\ n_pc' = "next"
    /\ UNCHANGED <<pipe_vars, llm_vars, base_vars, rate_vars, aux_vars, paper_store, persist_vars,
                   n_last, n_cur, delivered, sender_vars, restarts>>

\* for analysis in analyses: ...; await asyncio.sleep(10) after the last
notifier_next ==
    /\ n_pc = "next"
    /\ IF n_list = <<>>
       THEN n_pc' = "poll" /\ n_cur' = None /\ n_list' = n_list
       ELSE n_pc' = "reread" /\ n_cur' = Head(n_list) /\ n_list' = Tail(n_list)
    /\ UNCHANGED <<pipe_vars, llm_vars, base_vars, rate_vars, aux_vars, paper_store, persist_vars,
                   n_last, delivered, sender_vars, restarts>>

\* lines 289-303: the row is read again; an analysis below the threshold, or
\* one already queued or notified, is passed over
notifier_reread ==
    /\ n_pc = "reread"
    /\ LET a == paper_analysis[n_cur]
           skip == \/ a.relevance < InstantNotificationThreshold
                   \/ a.status \in {"queued", "notified"}
       IN  /\ n_pc' = IF skip THEN "next" ELSE "queue"
           /\ n_last' = IF skip THEN Max(n_last, n_cur) ELSE n_last
    /\ UNCHANGED <<pipe_vars, llm_vars, base_vars, rate_vars, aux_vars, paper_store, persist_vars,
                   n_list, n_cur, delivered, sender_vars, restarts>>

\* lines 306-316: await mark_analysis_queued(id) in a try block of its own;
\* an error of the store is logged and the report is sent all the same
notifier_mark_queued(ok) ==
    /\ n_pc = "queue"
    /\ paper_analysis' = IF ok THEN mark_analysis(paper_analysis, n_cur, "queued")
                         ELSE paper_analysis
    /\ n_pc' = "send"
    /\ UNCHANGED <<pipe_vars, llm_vars, base_vars, rate_vars, aux_vars, arxiv_paper, finding, persist_vars,
                   n_last, n_list, n_cur, delivered, sender_vars, restarts>>

\* send_analysis_report, lines 159-202: the report is sent to the chat
notifier_send ==
    /\ n_pc = "send"
    /\ delivered' = Bump(delivered, n_cur)
    /\ n_pc' = "notify"
    /\ UNCHANGED <<pipe_vars, llm_vars, base_vars, rate_vars, aux_vars, paper_store, persist_vars,
                   n_last, n_list, n_cur, sender_vars, restarts>>

\* send_analysis_report, lines 203-206: await mark_analysis_notified(id); an
\* error is logged; then last_checked_id = max(last_checked_id, id)
notifier_mark_notified(ok) ==
    /\ n_pc = "notify"
    /\ paper_analysis' = IF ok THEN mark_analysis(paper_analysis, n_cur, "notified")
                         ELSE paper_analysis
    /\ n_last' = Max(n_last, n_cur)
    /\ n_pc' = "next"
    /\ UNCHANGED <<pipe_vars, llm_vars, base_vars, rate_vars, aux_vars, arxiv_paper, finding, persist_vars,
                   n_list, n_cur, delivered, sender_vars, restarts>>

NotifierStep(outcomes) ==
    \/ notifier_poll
    \/ notifier_next
    \/ notifier_reread
    \/ \E ok \in outcomes : notifier_mark_queued(ok)
    \/ notifier_send
    \/ \E ok \in outcomes : notifier_mark_notified(ok)

----------------------------------------------------------------------------
(* bot/main.py: check_completed_tasks, with process_completed_task of
   bot/handlers/notifications/service.py; _notify_report of agent/manager.py *)

base_but_outbound == <<now, user, user_task, task_queue, task_statistics,
                       worker_vars, handler_vars>>

\* _notify_report: create_task("agent_report", ..., status = "completed")
AgentReport(uid) ==
    [task_type |-> "agent_report", user_id |-> uid, task_id |-> None,
     status |-> "completed"]

notify_report(uid) ==
    /\ Len(outbound) < MaxOutbound
    /\ outbound' = Append(outbound, AgentReport(uid))
    /\ UNCHANGED <<pipe_vars, llm_vars, base_but_outbound, other_vars>>

\* list_completed_tasks_since(last_id): status "completed", id > last_id,
\* in the order of id
list_completed_tasks_since(out, last_id) ==
    Ascending({i \in DOMAIN out : i > last_id /\ out[i].status = "completed"})

\* mark_task_sent
mark_task_sent(out, id) ==
    IF id \in DOMAIN out THEN [out EXCEPT ![id].status = "sent"] ELSE out

\* tasks = await list_completed_tasks_since(last_checked_id)
sender_poll ==
    /\ o_pc = "poll"
    /\ o_list' = list_completed_tasks_since(outbound, o_last)
    /\ o_pc' = "next"
    /\ UNCHANGED <<pipe_vars, llm_vars, base_vars, rate_vars, aux_vars, paper_store, persist_vars, notifier_vars,
                   o_last, o_cur, rendered, restarts>>

\* for task in tasks: ...; await asyncio.sleep(2) after the last
sender_next ==
    /\ o_pc = "next"
    /\ IF o_list = <<>>
       THEN o_pc' = "poll" /\ o_cur' = None /\ o_list' = o_list
       ELSE o_pc' = "render" /\ o_cur' = Head(o_list) /\ o_list' = Tail(o_list)
    /\ UNCHANGED <<pipe_vars, llm_vars, base_vars, rate_vars, aux_vars, paper_store, persist_vars, notifier_vars,
                   o_last, rendered, restarts>>

\* process_completed_task, lines 218-264: the row is sent to the chat
sender_render ==
    /\ o_pc = "render"
    /\ rendered' = Bump(rendered, o_cur)
    /\ o_pc' = "mark"
    /\ UNCHANGED <<pipe_vars, llm_vars, base_vars, rate_vars, aux_vars, paper_store, persist_vars, notifier_vars,
                   o_last, o_list, o_cur, restarts>>

\* process_completed_task, lines 266-269: await mark_task_sent(task.id), an
\* error is logged; then last_checked_id = max(last_checked_id, task.id)
sender_mark_sent(ok) ==
    /\ o_pc = "mark"
    /\ outbound' = IF ok THEN mark_task_sent(outbound, o_cur) ELSE outbound
    /\ o_last' = Max(o_last, o_cur)
    /\ o_pc' = "next"
    /\ UNCHANGED <<pipe_vars, llm_vars, base_but_outbound, rate_vars, aux_vars, paper_store, persist_vars,
                   notifier_vars, o_list, o_cur, rendered, restarts>>

SenderStep(outcomes) ==
    \/ sender_poll
    \/ sender_next
    \/ sender_render
    \/ \E ok \in outcomes : sender_mark_sent(ok)

\* the bot process stops and is started again: both background tasks begin
\* with last_checked_id = 0
bot_restart ==
    /\ restarts < MaxRestarts
    /\ restarts' = restarts + 1
    /\ n_pc' = "poll" /\ n_last' = 0 /\ n_list' = <<>> /\ n_cur' = None
    /\ o_pc' = "poll" /\ o_last' = 0 /\ o_list' = <<>> /\ o_cur' = None
    /\ UNCHANGED <<pipe_vars, llm_vars, base_vars, rate_vars, aux_vars, paper_store, persist_vars,
                   delivered, rendered>>

----------------------------------------------------------------------------
(* agent/pipeline: generate_query_plan (strategy.py), collect_candidates
   (search.py) and run_pipeline (pipeline.py) *)

\* PipelineTask.max_queries values tried (the field accepts 1 .. 20)
MaxQueries == 5
\* clauses joined by " AND " in the task's query
MaxClauses == 2
\* queries in a plan of the strategy agent
MaxAgentQueries == 2
\* distinct candidates the sources can return
NumCandidates == 2
\* items in one page of a source
MaxPageLen == 2
\* items in all the pages of one call of collect_candidates
MaxItems == 3

Sources == {"arxiv", "scholar", "pubmed", "github"}

\* the keyword families _infer_source looks for in a text
KeywordFamilies == {"pubmed", "github", "scholar"}

\* a GeneratedQuery: its source and the number of clauses joined by " AND "
GeneratedQuery(source, clauses) == [source |-> source, clauses |-> clauses]

\* the plans the strategy agent can answer with
RECURSIVE PlansUpTo(_)
PlansUpTo(n) ==
    IF n = 0 THEN {<<>>}
    ELSE LET shorter == PlansUpTo(n - 1)
         IN  shorter \cup {Append(pl, GeneratedQuery(src, 1)) :
                              pl \in {q \in shorter : Len(q) = n - 1}, src \in Sources}

\* the outcomes of retry_async(_run_strategy_agent, attempts=2): the last
\* exception, or the agent's final output
\* query_text is any string (models.py:124): the plans of one query whose
\* text is empty or blank, a query of no clause
BlankPlans == {<<GeneratedQuery(src, 0)>> : src \in Sources}

AgentOutcomes ==
    {[error |-> TRUE, queries |-> <<>>]}
    \cup {[error |-> FALSE, queries |-> q] :
             q \in PlansUpTo(MaxAgentQueries) \cup BlankPlans}

\* the outcomes of one search of a source adapter: an exception (HTTP failure,
\* malformed response), or the list of the ids of the items found
RECURSIVE ItemLists(_)
ItemLists(n) ==
    IF n = 0 THEN {<<>>}
    ELSE LET shorter == ItemLists(n - 1)
         IN  shorter \cup {Append(l, id) : l \in {x \in shorter : Len(x) = n - 1},
                                          id \in 1 .. NumCandidates}

Pages ==
    {[error |-> TRUE, items |-> <<>>]}
    \cup {[error |-> FALSE, items |-> l] : l \in ItemLists(MaxPageLen)}

RECURSIVE TotalItems(_)
TotalItems(pages) ==
    IF pages = <<>> THEN 0 ELSE Len(Head(pages)) + TotalItems(Tail(pages))

\* a PaperCandidate: its arxiv_id, and where it came from (the query and the
\* position in the page of that query)
PaperCandidate(arxiv_id, query, pos) == [arxiv_id |-> arxiv_id, query |-> query, pos |-> pos]

\* every item of the page is appended
RECURSIVE merge_page_keep_all(_, _, _, _)
merge_page_keep_all(collected, items, query, pos) ==
    IF items = <<>> THEN collected
    ELSE merge_page_keep_all(Append(collected, PaperCandidate(Head(items), query, pos)),
                             Tail(items), query, pos + 1)

\* collect_candidates lines 240-244: for c in page, a candidate whose arxiv_id
\* is in "seen" is passed over, any other is added to "seen" and appended
RECURSIVE merge_page(_, _, _, _)
merge_page(collected, items, query, pos) ==
    IF items = <<>> THEN collected
    ELSE LET c == PaperCandidate(Head(items), query, pos)
             seen == \E i \in DOMAIN collected : collected[i].arxiv_id = c.arxiv_id
         IN  merge_page(IF seen THEN collected ELSE Append(collected, c),
                        Tail(items), query, pos + 1)

\* _infer_source(text): the first keyword family found in the text, in the
\* order pubmed, github, scholar; arxiv otherwise
infer_source(families) ==
    IF "pubmed" \in families THEN "pubmed"
    ELSE IF "github" \in families THEN "github"
    ELSE IF "scholar" \in families THEN "scholar"
    ELSE "arxiv"

\* queries[: n]
Truncate(queries, n) == SubSeq(queries, 1, IF Len(queries) < n THEN Len(queries) ELSE n)

\* strategy.py lines 129-191: the four heuristic queries, cut to max_queries
heuristic_queries(task) ==
    Truncate(<<GeneratedQuery(infer_source(task.families), task.clauses),
               GeneratedQuery(infer_source(task.families \cup {"scholar"}), task.clauses + 1),
               GeneratedQuery(infer_source(task.families \cup {"github"}), task.clauses + 1),
               GeneratedQuery(infer_source(task.families), task.clauses)>>,
             task.max_queries)

\* generate_query_plan(task): with the agent disabled the exception of line 75
\* is raised outside the try block and leaves the function; an exception of
\* the agent after its retries, or an empty plan, gives the heuristic queries
generate_query_plan(task, use_agents, outcome) ==
    IF ~use_agents THEN [raised |-> TRUE, queries |-> <<>>]
    ELSE IF outcome.error \/ outcome.queries = <<>>
    THEN [raised |-> FALSE, queries |-> heuristic_queries(task)]
    ELSE [raised |-> FALSE, queries |-> Truncate(outcome.queries, task.max_queries)]

\* _broaden_query(query) for every query of the plan, with the query's source
broaden_query(q) ==
    (IF q.clauses > 1 THEN <<GeneratedQuery(q.source, q.clauses - 1)>> ELSE <<>>)
    \o (IF q.clauses > 2 THEN <<GeneratedQuery(q.source, 2)>> ELSE <<>>)
    \o (IF q.clauses > 0 THEN <<GeneratedQuery(q.source, 1)>> ELSE <<>>)

RECURSIVE broadened(_)
broadened(queries) ==
    IF queries = <<>> THEN <<>>
    ELSE broaden_query(Head(queries)) \o broadened(Tail(queries))

\* arxiv_search / scholar_search / pubmed_search / github_search: the page of
\* the source, or the exception that leaves the adapter.
\* ArxivParser.search_papers catches every exception and returns []; the
\* other three adapters let it pass
search(source, page) ==
    IF page.error /\ source = "arxiv" THEN [error |-> FALSE, items |-> <<>>] ELSE page

\* no run of the pipeline: the locals of run_pipeline do not exist
NoPipelineTask == [max_queries |-> 1, families |-> {}, clauses |-> 1, use_agents |-> TRUE]

\* run_pipeline is called by _process_user_task with a validated PipelineTask
pipeline_start(max_queries, families, clauses, use_agents) ==
    /\ pl_pc = "idle"
    /\ pl_task' = [max_queries |-> max_queries, families |-> families,
                   clauses |-> clauses, use_agents |-> use_agents]
    /\ pl_pc' = "strategy"
    /\ pl_plan' = <<>> /\ pl_queries' = <<>> /\ pl_next' = 1
    /\ pl_collected' = <<>> /\ pl_pages' = <<>> /\ pl_broadened' = FALSE
    /\ pl_raised' = "none" /\ pl_errors' = {}
    /\ UNCHANGED <<base_vars, rate_vars, aux_vars, paper_store, persist_vars, bot_vars, llm_vars>>

\* pipeline.py line 39: plan = await generate_query_plan(task)
strategy_stage(outcome) ==
    /\ pl_pc = "strategy"
    /\ LET plan == generate_query_plan(pl_task, pl_task.use_agents, outcome)
       IN  IF plan.raised
           THEN /\ pl_pc' = "failed" /\ pl_raised' = "strategy"
                /\ UNCHANGED <<pl_plan, pl_queries>>
           ELSE /\ pl_pc' = "collect" /\ pl_raised' = pl_raised
                /\ pl_plan' = plan.queries /\ pl_queries' = plan.queries
    /\ UNCHANGED <<pl_task, pl_next, pl_collected, pl_pages, pl_broadened, pl_errors,
                   base_vars, rate_vars, aux_vars, paper_store, persist_vars, bot_vars, llm_vars>>

\* collect_candidates, one turn of the loop over the queries: an exception
\* of the adapter is not caught here nor in run_pipeline
collect_query(page) ==
    /\ pl_pc = "collect"
    /\ pl_next <= Len(pl_queries)
    /\ TotalItems(pl_pages) + Len(page.items) <= MaxItems
    /\ LET src == pl_queries[pl_next].source
           got == search(src, page)
       IN  /\ pl_errors' = IF page.error THEN pl_errors \cup {src} ELSE pl_errors
           /\ IF got.error
              THEN /\ pl_pc' = "failed" /\ pl_raised' = "search"
                   /\ UNCHANGED <<pl_next, pl_collected, pl_pages>>
              ELSE /\ pl_collected' = merge_page(pl_collected, got.items, pl_next, 1)
                   /\ pl_pages' = Append(pl_pages, got.items)
                   /\ pl_next' = pl_next + 1
                   /\ UNCHANGED <<pl_pc, pl_raised>>
    /\ UNCHANGED <<pl_task, pl_plan, pl_queries, pl_broadened,
                   base_vars, rate_vars, aux_vars, paper_store, persist_vars, bot_vars, llm_vars>>

\* a retrieval that is retried whenever it has collected nothing
broaden_queries_again ==
    /\ pl_pc = "collect"
    /\ pl_next > Len(pl_queries)
    /\ pl_collected = <<>>
    /\ broadened(pl_queries) # <<>>
    /\ pl_queries' = broadened(pl_queries)
    /\ pl_next' = 1
    /\ pl_broadened' = TRUE
    /\ pl_pages' = <<>>
    /\ UNCHANGED <<pl_pc, pl_task, pl_plan, pl_collected, pl_raised, pl_errors,
                   base_vars, rate_vars, aux_vars, paper_store, persist_vars,
                   bot_vars, llm_vars>>

\* pipeline.py lines 48-65: no candidate was found, the broadened queries
\* are collected once
broaden_queries ==
    /\ pl_pc = "collect"
    /\ pl_next > Len(pl_queries)
    /\ pl_collected = <<>> /\ ~pl_broadened
    /\ broadened(pl_queries) # <<>>
    /\ pl_queries' = broadened(pl_queries)
    /\ pl_next' = 1
    /\ pl_broadened' = TRUE
    /\ pl_pages' = <<>>
    /\ UNCHANGED <<pl_pc, pl_task, pl_plan, pl_collected, pl_raised, pl_errors,
                   base_vars, rate_vars, aux_vars, paper_store, persist_vars, bot_vars, llm_vars>>

\* pipeline.py lines 67-97: ranking, analysis and decision, then the output
\* is returned
pipeline_output ==
    /\ pl_pc = "collect"
    /\ pl_next > Len(pl_queries)
    /\ pl_collected # <<>> \/ pl_broadened \/ broadened(pl_queries) = <<>>
    /\ pl_pc' = "returned"
    /\ UNCHANGED <<pl_task, pl_plan, pl_queries, pl_next, pl_collected, pl_pages, pl_broadened,
                   pl_raised, pl_errors,
                   base_vars, rate_vars, aux_vars, paper_store, persist_vars, bot_vars, llm_vars>>

\* _process_user_task, lines 272-282: complete_task_processing is called
\* with task_success, which is False when run_pipeline raised
cycle_done ==
    /\ pl_pc \in {"returned", "failed"}
    /\ pl_pc' = "idle"
    /\ pl_task' = NoPipelineTask
    /\ pl_plan' = <<>> /\ pl_queries' = <<>> /\ pl_next' = 1
    /\ pl_collected' = <<>> /\ pl_pages' = <<>> /\ pl_broadened' = FALSE
    /\ pl_raised' = "none" /\ pl_errors' = {}
    /\ UNCHANGED <<base_vars, rate_vars, aux_vars, paper_store, persist_vars, bot_vars, llm_vars>>

\* POST /v1/run answering with a response that also enqueues the report
run_response_enqueuing ==
    /\ pl_pc \in {"returned", "failed"}
    /\ pl_pc' = "idle"
    /\ pl_task' = NoPipelineTask
    /\ pl_plan' = <<>> /\ pl_queries' = <<>> /\ pl_next' = 1
    /\ pl_collected' = <<>> /\ pl_pages' = <<>> /\ pl_broadened' = FALSE
    /\ pl_raised' = "none" /\ pl_errors' = {}
    /\ outbound' = Append(outbound, AgentReport(1))
    /\ UNCHANGED <<base_but_outbound, rate_vars, aux_vars, paper_store, persist_vars, bot_vars, llm_vars>>

\* api/app.py, run, lines 164-177: the output of run_pipeline is turned into
\* the RunResponse (an exception of run_pipeline becomes an error response);
\* nothing is written
run_response ==
    /\ pl_pc \in {"returned", "failed"}
    /\ pl_pc' = "idle"
    /\ pl_task' = NoPipelineTask
    /\ pl_plan' = <<>> /\ pl_queries' = <<>> /\ pl_next' = 1
    /\ pl_collected' = <<>> /\ pl_pages' = <<>> /\ pl_broadened' = FALSE
    /\ pl_raised' = "none" /\ pl_errors' = {}
    /\ UNCHANGED <<base_vars, rate_vars, aux_vars, paper_store, persist_vars, bot_vars, llm_vars>>

\* task_success of _process_user_task once run_pipeline has ended
task_success == pl_pc = "returned"

----------------------------------------------------------------------------
(* agent/pipeline/ranking.py: rank_candidates.  The BM25 score of a candidate
   (lines 97-103) depends on the query, on the text of the candidate and on
   the set of the texts of all candidates, not on their order: it is a field
   of the candidate here. *)

RankIds == 1..MaxRanked
Scores == 0..MaxScore
\* item.updated: None, or a date after 1970 as its timestamp
Timestamps == 1..MaxTimestamp
TopKs == {2, 5}

RankedCandidate(id, score, updated) ==
    [arxiv_id |-> id, bm25_score |-> score, updated |-> updated]

\* the candidate lists of at most n items with different ids
RECURSIVE CandidateLists(_)
CandidateLists(n) ==
    IF n = 0 THEN {<<>>}
    ELSE LET shorter == CandidateLists(n - 1)
         IN  shorter \cup
             {Append(l, RankedCandidate(id, sc, up)) :
                 l \in {x \in shorter : Len(x) = n - 1},
                 id \in RankIds, sc \in Scores, up \in Timestamps \cup {None}}

DistinctIds(l) == \A i, j \in DOMAIN l : i # j => l[i].arxiv_id # l[j].arxiv_id

\* lines 106-110: _key(item) = (item.bm25_score, recency)
rank_key(item) == <<item.bm25_score, IF item.updated # None THEN item.updated ELSE 0>>

\* the comparison of two tuples of numbers of the same length
RECURSIVE TupleLess(_, _)
TupleLess(a, b) ==
    IF a = <<>> THEN FALSE
    ELSE Head(a) < Head(b) \/ (Head(a) = Head(b) /\ TupleLess(Tail(a), Tail(b)))

\* list.sort(key=k, reverse=True): descending, and stable (items of equal keys
\* keep the order they had)
\* the positions 1..n of the list, in the order of the sorted list
RECURSIVE SortedPositions(_, _)
SortedPositions(keys, n) ==
    IF n = 0 THEN <<>>
    ELSE LET sorted == SortedPositions(keys, n - 1)
             m == Cardinality({i \in DOMAIN sorted :
                                  ~TupleLess(keys[sorted[i]], keys[n])})
         IN  SubSeq(sorted, 1, m) \o <<n>> \o SubSeq(sorted, m + 1, Len(sorted))

SortReverse(l, keys) ==
    LET sorted == SortedPositions(keys, Len(l))
    IN  [i \in DOMAIN l |-> l[sorted[i]]]

\* rank_candidates(query, candidates, top_k), lines 112-117
rank_candidates(candidates, top_k) ==
    Truncate(SortReverse(candidates,
                         [i \in DOMAIN candidates |-> rank_key(candidates[i])]),
             top_k)

rank_call(candidates, top_k) ==
    /\ rk_pc = "idle"
    /\ DistinctIds(candidates)
    /\ rk_in' = candidates
    /\ rk_top_k' = top_k
    /\ rk_out' = <<>>
    /\ rk_pc' = "called"
    /\ UNCHANGED <<base_vars, rate_vars, paper_store, persist_vars, bot_vars,
                   pipe_vars, llm_vars, check_vars, decide_vars>>

rank_return ==
    /\ rk_pc = "called"
    /\ rk_out' = rank_candidates(rk_in, rk_top_k)
    /\ rk_pc' = "ranked"
    /\ UNCHANGED <<base_vars, rate_vars, paper_store, persist_vars, bot_vars,
                   pipe_vars, llm_vars, check_vars, decide_vars, rk_in,
                   rk_top_k>>

rank_done ==
    /\ rk_pc = "ranked"
    /\ rk_pc' = "idle"
    /\ rk_in' = <<>> /\ rk_top_k' = 0 /\ rk_out' = <<>>
    /\ UNCHANGED <<base_vars, rate_vars, paper_store, persist_vars, bot_vars,
                   pipe_vars, llm_vars, check_vars, decide_vars>>

----------------------------------------------------------------------------
(* agent/pipeline/decision.py: score_result, select_top and
   make_decision_and_report *)

\* result.relevance as the analysis gave it, within and outside of 0..100
AnalyzedRelevances == {48, 50, 97, 120}
MinRelevances == {50, 100}

\* an AnalysisResult: its relevance, and whether its summary names code, a
\* dataset or a benchmark (line 30)
AnalysisResult(relevance, boosted) == [relevance |-> relevance, boosted |-> boosted]

RECURSIVE AnalyzedLists(_)
AnalyzedLists(n) ==
    IF n = 0 THEN {<<>>}
    ELSE LET shorter == AnalyzedLists(n - 1)
         IN  shorter \cup
             {Append(l, AnalysisResult(r, b)) :
                 l \in {x \in shorter : Len(x) = n - 1},
                 r \in AnalyzedRelevances, b \in BOOLEAN}

\* score_result(task, result), lines 27-32
score_result(result) ==
    LET score == Max(0, Min(ScoreCeiling, result.relevance))
    IN  IF result.boosted THEN Min(ScoreCeiling, score + SummaryBoost) ELSE score

ScoredAnalysis(result, score) == [result |-> result, overall_score |-> score]

\* a selection without the threshold of line 50
select_top_unfiltered(min_relevance, analyzed) ==
    LET items == [i \in DOMAIN analyzed |->
                     ScoredAnalysis(analyzed[i], score_result(analyzed[i]))]
        sorted == SortReverse(items, [i \in DOMAIN items |-> <<items[i].overall_score>>])
    IN  Truncate(sorted, Max(1, Min(Len(sorted), TopSelected)))

\* select_top(task, analyzed), lines 47-54
select_top(min_relevance, analyzed) ==
    LET scored == [i \in DOMAIN analyzed |->
                      ScoredAnalysis(analyzed[i], score_result(analyzed[i]))]
        items == SelectSeq(scored, LAMBDA x : x.overall_score >= min_relevance)
        sorted == SortReverse(items, [i \in DOMAIN items |-> <<items[i].overall_score>>])
    IN  Truncate(sorted, Max(1, Min(Len(sorted), TopSelected)))

\* report_text of a DecisionReport: None, or a text
NoReportText == "null"
DecisionReport(should_notify, report_text) ==
    [should_notify |-> should_notify, report_text |-> report_text]
NoDecision == DecisionReport(FALSE, NoReportText)

\* how retry_async of the reporter agent ends (line 123): the error of the
\* last attempt, or the final_output of the agent
ReporterOutcomes ==
    {[error |-> TRUE, report |-> NoDecision]}
    \cup {[error |-> FALSE, report |-> r] :
             r \in {NoDecision, DecisionReport(TRUE, "report")}}

\* make_decision_and_report(task, selected), lines 101-137
make_decision_and_report(selected, outcome) ==
    IF selected = <<>> THEN DecisionReport(FALSE, NoReportText)
    ELSE IF ~outcome.error THEN outcome.report
    ELSE DecisionReport(TRUE, "template")

\* pipeline.py line 87: selected = select_top(task, analyzed)
decision_call(min_relevance, analyzed) ==
    /\ dc_pc = "idle"
    /\ dc_min' = min_relevance
    /\ dc_in' = analyzed
    /\ dc_selected' = select_top(min_relevance, analyzed)
    /\ dc_pc' = "selected"
    /\ UNCHANGED <<base_vars, rate_vars, paper_store, persist_vars, bot_vars,
                   pipe_vars, llm_vars, check_vars, rank_vars, dc_report, dc_llm>>

\* pipeline.py line 88: decision = await make_decision_and_report(task, selected)
decision_returns(outcome) ==
    /\ dc_pc = "selected"
    /\ dc_report' = make_decision_and_report(dc_selected, outcome)
    /\ dc_llm' = IF dc_selected = <<>> THEN "none"
                 ELSE IF outcome.error THEN "error" ELSE "ok"
    /\ dc_pc' = "returned"
    /\ UNCHANGED <<base_vars, rate_vars, paper_store, persist_vars, bot_vars,
                   pipe_vars, llm_vars, check_vars, rank_vars, dc_min, dc_in,
                   dc_selected>>

decision_done ==
    /\ dc_pc = "returned"
    /\ dc_pc' = "idle"
    /\ dc_min' = 0 /\ dc_in' = <<>> /\ dc_selected' = <<>>
    /\ dc_report' = NoDecision /\ dc_llm' = "none"
    /\ UNCHANGED <<base_vars, rate_vars, paper_store, persist_vars, bot_vars,
                   pipe_vars, llm_vars, check_vars, rank_vars>>

----------------------------------------------------------------------------
(* agent/pipeline/utils.py: retry_async *)

\* "attempts" values tried
MaxAttempts == 4
\* "base_delay" values tried, in tenths of a second
MaxBaseDelay == 3
\* delay *= factor, factor = 2.0
BackoffFactor == 2

\* the exceptions func can raise
Errors == {"timeout", "rate_limited"}
NoError == "none"
NoResult == [kind |-> "none", value |-> "none"]

\* the delay is not multiplied after a sleep
next_delay_constant(delay) == delay

\* line 88: delay *= factor
next_delay(delay) == delay * BackoffFactor

\* retry_async(func, attempts=n, base_delay=d) is called
retry_async(n, d) ==
    /\ rt_pc = "idle"
    /\ rt_attempts' = n /\ rt_base_delay' = d
    /\ rt_delay' = d
    /\ rt_last_error' = NoError
    /\ rt_attempt' = 1
    /\ rt_calls' = <<>> /\ rt_waits' = <<>>
    /\ rt_result' = NoResult
    /\ rt_pc' = "call"
    /\ UNCHANGED <<base_vars, rate_vars, aux_vars, paper_store, persist_vars, bot_vars, pipe_vars,
                   analyze_vars, cache_vars>>

\* lines 78-79: return await func()
retry_call_returns ==
    /\ rt_pc = "call"
    /\ rt_calls' = Append(rt_calls, "ok")
    /\ rt_result' = [kind |-> "returned", value |-> "ok"]
    /\ rt_pc' = "done"
    /\ UNCHANGED <<rt_attempts, rt_base_delay, rt_attempt, rt_delay, rt_last_error, rt_waits,
                   base_vars, rate_vars, aux_vars, paper_store, persist_vars, bot_vars, pipe_vars,
                   analyze_vars, cache_vars>>

\* lines 80-83, 89-90: func raised; after the last attempt the loop is left
\* and last_error is raised
retry_call_raises(error) ==
    /\ rt_pc = "call"
    /\ rt_calls' = Append(rt_calls, error)
    /\ rt_last_error' = error
    /\ IF rt_attempt >= rt_attempts
       THEN /\ rt_result' = [kind |-> "raised", value |-> error]
            /\ rt_pc' = "done"
       ELSE /\ rt_result' = rt_result
            /\ rt_pc' = "sleep"
    /\ UNCHANGED <<rt_attempts, rt_base_delay, rt_attempt, rt_delay, rt_waits,
                   base_vars, rate_vars, aux_vars, paper_store, persist_vars, bot_vars, pipe_vars,
                   analyze_vars, cache_vars>>

\* lines 87-88 and the next turn of the loop: await asyncio.sleep(delay);
\* delay *= factor
retry_sleep ==
    /\ rt_pc = "sleep"
    /\ rt_waits' = Append(rt_waits, rt_delay)
    /\ rt_delay' = next_delay(rt_delay)
    /\ rt_attempt' = rt_attempt + 1
    /\ rt_pc' = "call"
    /\ UNCHANGED <<rt_attempts, rt_base_delay, rt_last_error, rt_calls, rt_result,
                   base_vars, rate_vars, aux_vars, paper_store, persist_vars, bot_vars, pipe_vars,
                   analyze_vars, cache_vars>>

\* the caller has the result; the locals of retry_async are gone
retry_done ==
    /\ rt_pc = "done"
    /\ rt_pc' = "idle"
    /\ rt_attempts' = 1 /\ rt_base_delay' = 1
    /\ rt_delay' = 0
    /\ rt_last_error' = NoError
    /\ rt_attempt' = 0
    /\ rt_calls' = <<>> /\ rt_waits' = <<>>
    /\ rt_result' = NoResult
    /\ UNCHANGED <<base_vars, rate_vars, aux_vars, paper_store, persist_vars, bot_vars, pipe_vars,
                   analyze_vars, cache_vars>>

\* 2 ^ n
RECURSIVE Pow2(_)
Pow2(n) == IF n = 0 THEN 1 ELSE 2 * Pow2(n - 1)

----------------------------------------------------------------------------
(* agent/pipeline/analyze.py: analyze_candidates with the analyzer agent on
   (PIPELINE_USE_AGENTS_ANALYZE set and an API key present) *)

\* pipeline runs that execute concurrently in one process (requests of the
\* API served by one event loop)
NumRuns == 2
\* analysis inputs of one run
NumItems == 3
\* PIPELINE_MAX_CONCURRENT_ANALYSIS as configured
MaxConcurrent == 2

Runs == 1 .. NumRuns
Items == 1 .. NumItems

\* the LLM calls in flight in the process
InFlight == {ri \in Runs \X Items : an_item[ri[1]][ri[2]] = "calling"}

\* lines 221-232: semaphore = asyncio.Semaphore(max_concurrent), a local of
\* this call; gather starts analyze_with_semaphore for every input
analyze_candidates(r) ==
    /\ an_pc[r] = "idle"
    /\ an_pc' = [an_pc EXCEPT ![r] = "gather"]
    /\ an_sem' = [an_sem EXCEPT ![r] = MaxConcurrent]
    /\ an_item' = [an_item EXCEPT ![r] = [i \in Items |-> "waiting"]]
    /\ UNCHANGED <<base_vars, rate_vars, aux_vars, paper_store, persist_vars, bot_vars, pipe_vars,
                   retry_vars, cache_vars>>

\* lines 224-225, 151-161: async with semaphore; a cached result is returned
\* at once, else retry_async(Runner.run(...)) is awaited
analyze_with_semaphore(r, i, cached) ==
    /\ an_pc[r] = "gather"
    /\ an_item[r][i] = "waiting"
    /\ an_sem[r] > 0
    /\ IF cached
       THEN /\ an_item' = [an_item EXCEPT ![r][i] = "done"]
            /\ an_sem' = an_sem
       ELSE /\ an_item' = [an_item EXCEPT ![r][i] = "calling"]
            /\ an_sem' = [an_sem EXCEPT ![r] = @ - 1]
    /\ UNCHANGED <<an_pc, base_vars, rate_vars, aux_vars, paper_store, persist_vars, bot_vars,
                   pipe_vars, retry_vars, cache_vars>>

\* lines 161-218: the call ended, with an answer or with the heuristic
\* fallback; the result is returned and the semaphore released
analyze_single_done(r, i) ==
    /\ an_pc[r] = "gather"
    /\ an_item[r][i] = "calling"
    /\ an_item' = [an_item EXCEPT ![r][i] = "done"]
    /\ an_sem' = [an_sem EXCEPT ![r] = @ + 1]
    /\ UNCHANGED <<an_pc, base_vars, rate_vars, aux_vars, paper_store, persist_vars, bot_vars,
                   pipe_vars, retry_vars, cache_vars>>

\* line 240: gather has every result
analyze_return(r) ==
    /\ an_pc[r] = "gather"
    /\ \A i \in Items : an_item[r][i] = "done"
    /\ an_pc' = [an_pc EXCEPT ![r] = "idle"]
    /\ an_sem' = [an_sem EXCEPT ![r] = 0]
    /\ an_item' = [an_item EXCEPT ![r] = [i \in Items |-> "none"]]
    /\ UNCHANGED <<base_vars, rate_vars, aux_vars, paper_store, persist_vars, bot_vars, pipe_vars,
                   retry_vars, cache_vars>>

----------------------------------------------------------------------------
(* agent/pipeline/analyze.py: _analysis_cache and _cache_analysis *)

\* _max_cache_size
MaxCacheSize == 1000
\* to_remove = max(1, _max_cache_size // 10)
EvictFraction == 10
\* entries inserted in one course of the process
MaxInsertions == 1205

\* the keys that can be cached: "fresh" is a key that is not in the cache,
\* "oldest" and "newest" are the first and the last key of the dict
CacheKeys == {"fresh", "oldest", "newest"}

to_remove == Max(1, MaxCacheSize \div EvictFraction)

\* the key of an entry is the number of the insertion that brought it in
CacheEntry(key, inserted) == [key |-> key, inserted |-> inserted]

\* nothing is removed from a full cache
cache_analysis_unbounded(cache, key, clock) ==
    IF \E i \in DOMAIN cache : cache[i].key = key
    THEN cache
    ELSE Append(cache, CacheEntry(key, clock))

\* _cache_analysis(task_query, arxiv_id, result): a cache of _max_cache_size
\* entries or more loses the first to_remove keys of the dict; then the key
\* is set, which appends it to the dict unless it is there
cache_analysis(cache, key, clock) ==
    LET kept == IF Len(cache) >= MaxCacheSize
                THEN SubSeq(cache, Min(to_remove, Len(cache)) + 1, Len(cache))
                ELSE cache
    IN  IF \E i \in DOMAIN kept : kept[i].key = key
        THEN kept
        ELSE Append(kept, CacheEntry(key, clock))

\* analyze_single_candidate, line 213: _cache_analysis(...) with a key
cache_result(which) ==
    /\ cache_clock < MaxInsertions
    /\ which # "fresh" => analysis_cache # <<>>
    /\ LET key == IF which = "oldest" THEN Head(analysis_cache).key
                  ELSE IF which = "newest" THEN analysis_cache[Len(analysis_cache)].key
                  ELSE cache_clock + 1
           after == cache_analysis(analysis_cache, key, cache_clock + 1)
       IN  /\ analysis_cache' = after
           /\ cache_clock' = IF after # <<>> /\ after[Len(after)].inserted = cache_clock + 1
                             THEN cache_clock + 1 ELSE cache_clock
    /\ UNCHANGED <<base_vars, rate_vars, aux_vars, paper_store, persist_vars, bot_vars, pipe_vars,
                   retry_vars, analyze_vars>>

----------------------------------------------------------------------------

Init ==
    /\ now = 1
    /\ user = [u \in Users |->
                  IF u = 1 THEN UserRow(u, FREE, None, FALSE)
                  ELSE IF u = 2 THEN UserRow(u, PREMIUM, 1, FALSE)
                  ELSE UserRow(u, FREE, None, TRUE)]
    /\ user_task = <<>>
    /\ task_queue = <<>>
    /\ outbound = <<>>
    /\ task_statistics = [total_tasks_processed |-> 0, recent_completed_tasks |-> 0,
                          recent_failed_tasks |-> 0]
    /\ w_pc = [w \in Workers |-> "startup"]
    /\ w_task = [w \in Workers |-> None]
    /\ w_success = [w \in Workers |-> FALSE]
    /\ h_pc = [h \in Handlers |-> "idle"]
    /\ h_user = [h \in Handlers |-> NoUser]
    /\ h_task = [h \in Handlers |-> None]
    /\ h_reply = [h \in Handlers |-> NoReply]
    /\ h_position = [h \in Handlers |-> None]
    /\ rl_now = 0
    /\ rate_limit_record = <<>>
    /\ rl_reply = <<>>
    /\ rl_passed = <<>>
    /\ arxiv_paper = <<>>
    /\ paper_analysis = <<>>
    /\ finding = <<>>
    /\ p_pc = [w \in Workers |-> "idle"]
    /\ p_item = [w \in Workers |-> NoItem]
    /\ p_paper = [w \in Workers |-> None]
    /\ n_pc = "poll"
    /\ n_last = 0
    /\ n_list = <<>>
    /\ n_cur = None
    /\ delivered = <<>>
    /\ o_pc = "poll"
    /\ o_last = 0
    /\ o_list = <<>>
    /\ o_cur = None
    /\ rendered = <<>>
    /\ restarts = 0
    /\ pl_pc = "idle"
    /\ pl_task = NoPipelineTask
    /\ pl_plan = <<>>
    /\ pl_queries = <<>>
    /\ pl_next = 1
    /\ pl_collected = <<>>
    /\ pl_pages = <<>>
    /\ pl_broadened = FALSE
    /\ pl_raised = "none"
    /\ pl_errors = {}
    /\ rt_pc = "idle"
    /\ rt_attempts = 1
    /\ rt_base_delay = 1
    /\ rt_attempt = 0
    /\ rt_delay = 0
    /\ rt_last_error = NoError
    /\ rt_calls = <<>>
    /\ rt_waits = <<>>
    /\ rt_result = NoResult
    /\ an_pc = [r \in Runs |-> "idle"]
    /\ an_sem = [r \in Runs |-> 0]
    /\ an_item = [r \in Runs |-> [i \in Items |-> "none"]]
    /\ analysis_cache = <<>>
    /\ cache_clock = 0
    /\ rc_pc = [c \in Checkers |-> "idle"]
    /\ rc_key = [c \in Checkers |-> <<1, "task_create">>]
    /\ rc_record = [c \in Checkers |-> [found |-> FALSE, row |-> NewRateLimitRecord(0)]]
    /\ rc_extra = {}
    /\ rc_allowed = [k \in CheckKeys |-> 0]
    /\ rk_pc = "idle"
    /\ rk_in = <<>>
    /\ rk_top_k = 0
    /\ rk_out = <<>>
    /\ dc_pc = "idle"
    /\ dc_min = 0
    /\ dc_in = <<>>
    /\ dc_selected = <<>>
    /\ dc_report = NoDecision
    /\ dc_llm = "none"

----------------------------------------------------------------------------
(* agent/manager.py: the stages of one cycle of _process_user_task, between
   start_task_processing and the finally block *)

\* line 251 raises: the except block of lines 275-278 sets task_success False
cycle_pipeline_raises(w) ==
    /\ w_pc[w] = "pipeline"
    /\ w_success' = [w_success EXCEPT ![w] = FALSE]
    /\ w_pc' = [w_pc EXCEPT ![w] = "complete"]
    /\ UNCHANGED <<now, store, w_task, handler_vars, other_vars>>

\* line 251 returns the output; line 254: output.should_notify and
\* output.report_text
cycle_pipeline_returns(w, notify) ==
    /\ w_pc[w] = "pipeline"
    /\ w_pc' = [w_pc EXCEPT ![w] = IF notify THEN "notify" ELSE "persist"]
    /\ UNCHANGED <<now, store, w_task, w_success, handler_vars, other_vars>>

\* a cycle that goes on to the persistence without the call of line 256
cycle_notify_report_skipped(w) ==
    /\ w_pc[w] = "notify"
    /\ w_pc' = [w_pc EXCEPT ![w] = "persist"]
    /\ UNCHANGED <<now, store, w_task, w_success, handler_vars, other_vars>>

\* lines 255-256: await _notify_report(target_user, output.report_text);
\* create_task commits the row
cycle_notify_report(w) ==
    /\ w_pc[w] = "notify"
    /\ outbound' = Append(outbound, AgentReport(user_task[w_task[w]].user_id))
    /\ w_pc' = [w_pc EXCEPT ![w] = "persist"]
    /\ UNCHANGED <<now, user, user_task, task_queue, task_statistics, w_task,
                   w_success, handler_vars, other_vars>>

\* create_task of _notify_report raises: no row, the except block of lines
\* 275-278
cycle_notify_raises(w) ==
    /\ w_pc[w] = "notify"
    /\ w_success' = [w_success EXCEPT ![w] = FALSE]
    /\ w_pc' = [w_pc EXCEPT ![w] = "complete"]
    /\ UNCHANGED <<now, store, w_task, handler_vars, other_vars>>

\* lines 259-262 and 140: the next item of output.selected of this cycle
cycle_persist_item(w, arxiv_id, relevance) ==
    /\ w_pc[w] = "persist"
    /\ p_pc[w] = "idle"
    /\ Len(paper_analysis) < MaxAnalyses
    /\ p_item' = [p_item EXCEPT ![w] = [task_id |-> w_task[w],
                                        arxiv_id |-> arxiv_id,
                                        relevance |-> relevance]]
    /\ p_pc' = [p_pc EXCEPT ![w] = "lookup"]
    /\ UNCHANGED <<pipe_vars, llm_vars, base_vars, rate_vars, aux_vars, bot_vars,
                   paper_store, p_paper>>

\* lines 266-270: an operation of _persist_selected raises; the rows that the
\* operations before it committed stay, the error is raised again and the
\* except block of lines 275-278 sets task_success False
cycle_persist_raises(w) ==
    /\ w_pc[w] = "persist"
    /\ p_pc[w] # "idle"
    /\ p_pc' = [p_pc EXCEPT ![w] = "idle"]
    /\ p_item' = [p_item EXCEPT ![w] = NoItem]
    /\ p_paper' = [p_paper EXCEPT ![w] = None]
    /\ w_success' = [w_success EXCEPT ![w] = FALSE]
    /\ w_pc' = [w_pc EXCEPT ![w] = "complete"]
    /\ UNCHANGED <<now, store, w_task, handler_vars, rate_vars, aux_vars, paper_store,
                   bot_vars, pipe_vars, llm_vars>>

\* line 272: task_success = True, after the last item (or a dry run, or an
\* empty output.selected)
cycle_persist_done(w) ==
    /\ w_pc[w] = "persist"
    /\ p_pc[w] = "idle"
    /\ w_success' = [w_success EXCEPT ![w] = TRUE]
    /\ w_pc' = [w_pc EXCEPT ![w] = "complete"]
    /\ UNCHANGED <<now, store, w_task, handler_vars, other_vars>>

\* line 282: complete_task_processing raises before its commit; the error
\* leaves _process_user_task and main logs it (lines 328-335)
cycle_complete_raises(w) ==
    /\ w_pc[w] = "complete"
    /\ w_pc' = [w_pc EXCEPT ![w] = "poll"]
    /\ w_task' = [w_task EXCEPT ![w] = None]
    /\ w_success' = [w_success EXCEPT ![w] = FALSE]
    /\ UNCHANGED <<now, store, handler_vars, other_vars>>

\* one step of the agent worker w, the stages of its cycle one by one
CycleStep(w, cap, relevances) ==
    \/ agent_startup(w)
    \/ get_next_queued_task(w, cap)
    \/ start_task_processing_read(w)
    \/ start_task_processing_commit(w)
    \/ cycle_pipeline_raises(w)
    \/ \E notify \in BOOLEAN : cycle_pipeline_returns(w, notify)
    \/ cycle_notify_report(w)
    \/ cycle_notify_raises(w)
    \/ \E a \in ArxivIds, r \in relevances : cycle_persist_item(w, a, r)
    \/ persist_lookup(w)
    \/ persist_create_paper(w)
    \/ persist_create_analysis(w)
    \/ persist_link(w)
    \/ cycle_persist_raises(w)
    \/ cycle_persist_done(w)
    \/ process_user_task_finally(w)
    \/ cycle_complete_raises(w)

\* one step of the agent worker w
AgentStep(w, cap) ==
    \/ agent_startup(w)
    \/ get_next_queued_task(w, cap)
    \/ start_task_processing_read(w)
    \/ start_task_processing_commit(w)
    \/ run_pipeline(w)
    \/ process_user_task_finally(w)

\* one step of the chat handler h, for a message of one of the users in U
HandlerStep(h, U, limit) ==
    \/ \E uid \in U : get_or_create_user(h, uid)
    \/ \E len \in DescriptionLengths : create_task_for_user_check(h, len)
    \/ create_user_task_row(h, limit)
    \/ create_user_task_enqueue(h)
    \/ create_user_task_increment(h)
    \/ create_task_for_user_answer(h)
    \/ create_task_for_user_error(h)

UserStep(statuses) ==
    \E uid \in Users, t \in TaskIds, status \in statuses :
        user_changes_status(uid, t, status)

\* The scheduler: every agent worker, one chat handler
Next ==
    \/ \E w \in Workers : AgentStep(w, MaxCyclesRun)
    \/ HandlerStep(1, {1, 2}, MaxTasks)

Spec == Init /\ [][Next]_vars

\* Admission: every chat handler, the owners changing their tasks, the clock
NextAdmission ==
    \/ \E h \in Handlers : HandlerStep(h, Users, MaxTasks)
    \/ UserStep(UserStatuses)
    \/ day_passes

SpecAdmission == Init /\ [][NextAdmission]_vars

\* The days of one user: one chat handler, one free user, one agent worker
\* that runs one cycle of each task, the clock
NextQuota ==
    \/ HandlerStep(1, {1}, MaxQuotaTasks)
    \/ AgentStep(1, QuotaCyclesRun)
    \/ day_passes

SpecQuota == Init /\ [][NextQuota]_vars

\* The life of one task: every agent worker, one free user with one task
NextCycles ==
    \/ \E w \in Workers : AgentStep(w, MaxCyclesOneTask)
    \/ HandlerStep(1, {1}, 1)

SpecCycles == Init /\ [][NextCycles]_vars

\* The /task messages of one user reaching the rate limiter as time passes
NextRate ==
    \/ rate_limit_check(1, "task_create")
    \/ \E d \in {TickSeconds, HourSeconds} : seconds_pass(d)

SpecRate == Init /\ [][NextRate]_vars

\* The rate limiter under concurrent checks of two users
NextCheck ==
    \E c \in Checkers :
        \/ \E key \in CheckKeys : check_rate_limit_raises(c, key)
        \/ \E key \in CheckKeys : check_rate_limit_select(c, key)
        \/ check_rate_limit_commit(c)

SpecCheck == Init /\ [][NextCheck]_vars

\* The ranking stage on every list of candidates
NextRank ==
    \/ \E l \in CandidateLists(MaxRanked), k \in TopKs : rank_call(l, k)
    \/ rank_return
    \/ rank_done

SpecRank == Init /\ [][NextRank]_vars

\* The decision stage on every list of analyzed results
NextDecision ==
    \/ \E m \in MinRelevances, l \in AnalyzedLists(MaxAnalyzed) : decision_call(m, l)
    \/ \E outcome \in ReporterOutcomes : decision_returns(outcome)
    \/ decision_done

SpecDecision == Init /\ [][NextDecision]_vars

\* The agent workers persisting the items their cycles select
NextPapers == \E w \in Workers : PersistStep(w, Relevances)

SpecPapers == Init /\ [][NextPapers]_vars

\* Instant notifications: one agent worker persisting selected items, the
\* bot's check_new_analyses, restarts of the bot
NextNotifier ==
    \/ PersistStep(1, Relevances)
    \/ NotifierStep(BOOLEAN)
    \/ bot_restart

SpecNotifier == Init /\ [][NextNotifier]_vars

\* Outbound messages: the agent enqueueing reports, the bot's
\* check_completed_tasks, restarts of the bot
NextSender ==
    \/ \E uid \in {1, 2} : notify_report(uid)
    \/ SenderStep(BOOLEAN)
    \/ bot_restart

SpecSender == Init /\ [][NextSender]_vars

\* One agent worker running the pipeline cycle after cycle
NextPipeline ==
    \/ \E m \in 1 .. MaxQueries, f \in SUBSET KeywordFamilies,
          c \in 1 .. MaxClauses, a \in BOOLEAN : pipeline_start(m, f, c, a)
    \/ \E outcome \in AgentOutcomes : strategy_stage(outcome)
    \/ \E page \in Pages : collect_query(page)
    \/ broaden_queries
    \/ pipeline_output
    \/ cycle_done

SpecPipeline == Init /\ [][NextPipeline]_vars

\* One call of retry_async after the other
NextRetry ==
    \/ \E n \in 1 .. MaxAttempts, d \in 1 .. MaxBaseDelay : retry_async(n, d)
    \/ retry_call_returns
    \/ \E error \in Errors : retry_call_raises(error)
    \/ retry_sleep
    \/ retry_done

SpecRetry == Init /\ [][NextRetry]_vars

\* The API process: requests to POST /v1/run whose pipeline runs are in
\* their analysis stage
NextAnalyze ==
    \E r \in Runs :
        \/ analyze_candidates(r)
        \/ \E i \in Items, cached \in BOOLEAN : analyze_with_semaphore(r, i, cached)
        \/ \E i \in Items : analyze_single_done(r, i)
        \/ analyze_return(r)

SpecAnalyze == Init /\ [][NextAnalyze]_vars

\* One process caching one analysis result after the other
NextCache == \E which \in CacheKeys : cache_result(which)

SpecCache == Init /\ [][NextCache]_vars

\* POST /v1/run: the request is validated and run_pipeline is awaited, then
\* the response is built
ApiStep(max_queries, outcomes, pages) ==
    \/ \E m \in max_queries, a \in BOOLEAN : pipeline_start(m, {}, 1, a)
    \/ \E outcome \in outcomes : strategy_stage(outcome)
    \/ \E page \in pages : collect_query(page)
    \/ broaden_queries
    \/ pipeline_output
    \/ run_response

\* The API process serving requests while an agent worker persists the
\* items of its cycles and enqueues its reports
NextApi ==
    \/ ApiStep({1}, {o \in AgentOutcomes : Len(o.queries) <= 1},
               {pg \in Pages : Len(pg.items) <= 1})
    \/ PersistStep(1, {HighRelevance})
    \/ notify_report(1)

SpecApi == Init /\ [][NextApi]_vars

\* Cancellation: one agent worker, one chat handler creating the task of one
\* user, and the owner setting the status of the task to cancelled
NextCancel ==
    \/ AgentStep(1, MaxCyclesRun)
    \/ HandlerStep(1, {1}, 1)
    \/ UserStep({CANCELLED})

SpecCancel == Init /\ [][NextCancel]_vars

\* The cycles of one task stage by stage: one agent worker, one chat handler
\* creating the task of one user
NextReport ==
    \/ CycleStep(1, ReportCyclesRun, {HighRelevance})
    \/ HandlerStep(1, {1}, 1)

SpecReport == Init /\ [][NextReport]_vars

\* Restarts: the agent workers stop and start again while one user's task
\* runs its cycles.  A worker that can take a step eventually takes one, and
\* the chat handler finishes the message it works on.
NextRestart ==
    \/ \E w \in Workers : AgentStep(w, MaxCyclesOneTask)
    \/ HandlerStep(1, {1}, 1)
    \/ \E w \in Workers : worker_stops(w)

SpecRestart ==
    /\ Init
    /\ [][NextRestart]_vars
    /\ \A w \in Workers : WF_vars(AgentStep(w, MaxCyclesOneTask))
    /\ WF_vars(HandlerStep(1, {1}, 1))

\* Progress: the agent workers run without stopping while the owner pauses
\* and resumes the task, under the same fairness
NextProgress ==
    \/ \E w \in Workers : AgentStep(w, MaxCyclesOneTask)
    \/ HandlerStep(1, {1}, 1)
    \/ UserStep(UserStatuses)

SpecProgress ==
    /\ Init
    /\ [][NextProgress]_vars
    /\ \A w \in Workers : WF_vars(AgentStep(w, MaxCyclesOneTask))
    /\ WF_vars(HandlerStep(1, {1}, 1))

----------------------------------------------------------------------------
(* Claims *)

HasEntry(t) == t \in DOMAIN task_queue

\* C1: in every reachable state a task whose status is queued or processing
\* has its queue entry (task_id is unique, so exactly one), and a task whose
\* status is completed, failed or cancelled has none.
C1_QueueEntryPerTask ==
    \A t \in TaskIds :
        /\ user_task[t].status \in {QUEUED, PROCESSING} => HasEntry(t)
        /\ IsTerminal(user_task[t].status) => ~HasEntry(t)

\* C2: for every task cycles_completed never exceeds max_cycles, and the
\* status is completed exactly when cycles_completed equals max_cycles and no
\* cycle failed (a failed cycle is what leaves the status failed).
C2_CyclesWithinLimit ==
    \A t \in TaskIds :
        /\ user_task[t].cycles_completed <= user_task[t].max_cycles
        /\ user_task[t].status = COMPLETED
               => user_task[t].cycles_completed = user_task[t].max_cycles
        /\ (user_task[t].cycles_completed = user_task[t].max_cycles
                /\ user_task[t].status # FAILED)
               => user_task[t].status = COMPLETED

\* C3: start_processing is an atomic compare-and-set, so no two workers run a
\* cycle of the same task at the same time.
C3_OneWorkerPerTask ==
    \A w1, w2 \in Workers :
        (w1 # w2 /\ w_pc[w1] = "pipeline" /\ w_pc[w2] = "pipeline")
            => w_task[w1] # w_task[w2]

\* C4: after every admission and creation the stored daily_tasks_created of
\* every user is at most the user's daily_task_limit, also on the first
\* creation after a reset of the daily counter.
C4_DailyWithinLimit ==
    \A u \in Users : user[u].daily_tasks_created <= user[u].daily_task_limit

\* C5: no user has more tasks in status queued or processing than the user's
\* concurrent_task_limit, also when two submissions of the user interleave.
C5_ConcurrentWithinLimit ==
    \A u \in Users : ActiveTasks(user_task, u) <= user[u].concurrent_task_limit

\* C6: complete_task_processing applied a second time to the same task with
\* the same task_success leaves tasks, queue, notifications and statistics as
\* they are after the first call.
C6_CompleteIdempotent ==
    [][\A w \in Workers :
          (w_pc[w] = "complete" /\ w_pc'[w] = "poll")
              => complete_task_processing(user_task', task_queue', outbound',
                                          task_statistics', w_task[w], w_success[w])
                 = <<user_task', task_queue', outbound', task_statistics'>>]_vars

\* C7: once the status of a task is completed, failed or cancelled, no step
\* changes its status or its cycles_completed.
C7_TerminalImmutable ==
    [][\A t \in TaskIds :
          IsTerminal(user_task[t].status)
              => /\ user_task'[t].status = user_task[t].status
                 /\ user_task'[t].cycles_completed = user_task[t].cycles_completed]_vars

\* C8: whenever a worker is handed a task by get_next_queued_task, the task
\* is a queued task with a queue entry and no other queued task has a smaller
\* priority value, or the same priority and an earlier created_at of its
\* entry; so a queued premium task (50) goes before any queued free task (100).
C8_DispatchOrder ==
    [][\A w \in Workers :
          (w_pc[w] = "poll" /\ w_pc'[w] = "start")
              => /\ HasEntry(w_task'[w])
                 /\ user_task[w_task'[w]].status = QUEUED
                 /\ \A s \in TaskIds :
                        (HasEntry(s) /\ user_task[s].status = QUEUED)
                            => /\ task_queue[s].priority >= task_queue[w_task'[w]].priority
                               /\ task_queue[s].priority = task_queue[w_task'[w]].priority
                                      => task_queue[s].created_at
                                             >= task_queue[w_task'[w]].created_at]_vars

\* a worker holds a premium task it was handed while a free task that was
\* enqueued earlier is still queued
C8_Witness ==
    \E w \in Workers, s \in TaskIds :
        /\ w_pc[w] = "start"
        /\ HasEntry(w_task[w]) /\ HasEntry(s)
        /\ user_task[s].status = QUEUED
        /\ task_queue[w_task[w]].priority = PremiumPriority
        /\ task_queue[s].priority = FreePriority
        /\ task_queue[s].created_at < task_queue[w_task[w]].created_at

\* C9: create_user_task_with_queue is all-or-nothing: a step that adds a task
\* row also adds the queue entry of the task and adds one to the stored
\* daily_tasks_created of its owner, so that no state holds only a part of it.
C9_CreateAllOrNothing ==
    [][Len(user_task') > Len(user_task)
          => /\ Len(user_task') \in DOMAIN task_queue'
             /\ user_task'[Len(user_task')].status = QUEUED
             /\ user'[user_task'[Len(user_task')].user_id].daily_tasks_created
                    = user[user_task'[Len(user_task')].user_id].daily_tasks_created + 1]_vars

\* the handler h ends its admission check with a denial
AdmissionDenied(h) ==
    /\ h_pc[h] = "check"
    /\ h_pc'[h] = "idle"
    /\ ~check_user_can_create_task(user, user_task, now, h_user[h]).allowed

\* C10 as stated: an admission check that denies changes no stored state.
C10_DenialChangesNothing ==
    [][\A h \in Handlers : AdmissionDenied(h) => UNCHANGED store]_vars

\* C10: an admission check that denies changes no task, queue entry,
\* notification or statistic and no user row, with one exception: a denial
\* for the daily or the concurrent cap, made a day or more after the user's
\* last_daily_reset, has set this user's daily_tasks_created to 0 and
\* last_daily_reset to the time of the check.
C10_DenialResetsOnly ==
    [][\A h \in Handlers :
          AdmissionDenied(h)
              => /\ UNCHANGED <<user_task, task_queue, outbound, task_statistics>>
                 /\ \A u \in Users :
                        \/ user'[u] = user[u]
                        \/ /\ u = h_user[h].id
                           /\ h_reply'[h][1] \in {"Daily task limit reached",
                                                  "Concurrent task limit reached"}
                           /\ now - user[u].last_daily_reset >= 1
                           /\ user'[u] = [user[u] EXCEPT !.daily_tasks_created = 0,
                                                         !.last_daily_reset = now]]_vars

\* a free user with a queued task was denied for the concurrent cap on the
\* day after, and the stored counter was reset on that day
C10_Witness ==
    \E h \in Handlers :
        /\ h_pc[h] = "idle"
        /\ h_reply[h] = Reply("Concurrent task limit reached", FreeConcurrentLimit)
        /\ \A g \in Handlers \ {h} : h_pc[g] = "idle" /\ h_reply[g] = NoReply
        /\ now > 1
        /\ user[1].last_daily_reset = now
        /\ user[1].daily_tasks_created = 0
        /\ ActiveTasks(user_task, 1) = 1

\* C11: in any span of 60 seconds at most 2 task_create checks of one user
\* are allowed: a third check within 60 seconds of the first of them is
\* rejected by the per-minute window.
C11_TwoPerMinute == Len(rl_passed) <= TaskCreatePerMinute

\* the check of user 1 for task_create that ends this step is rejected
RateLimitRejected ==
    /\ rl_now' = rl_now
    /\ ~check_rate_limit(rate_limit_record, rl_now, 1, "task_create").allowed
    /\ rl_reply' = check_rate_limit(rate_limit_record, rl_now, 1, "task_create").reason

\* C12: a rate-limit check that is rejected leaves the stored minute, hour
\* and day counters and the window reset times of the user's record as they
\* were.
C12_RejectedCheckStoresNothing ==
    [][RateLimitRejected => rate_limit_record' = rate_limit_record]_vars

\* a check was rejected by the hour window a minute or more after the start
\* of the stored minute window, whose full counter is still stored
C12_Witness ==
    /\ rl_reply = RateLimitExceeded(TaskCreatePerHour, "task_create", "hour")
    /\ <<1, "task_create">> \in DOMAIN rate_limit_record
    /\ rl_now - rate_limit_record[<<1, "task_create">>].minute_reset_at >= MinuteSeconds
    /\ rate_limit_record[<<1, "task_create">>].count_per_minute = TaskCreatePerMinute
    /\ rate_limit_record[<<1, "task_create">>].count_per_hour = TaskCreatePerHour

\* C13: complete_task_processing with task_success = False leaves
\* cycles_completed of the task as it is and sets its status to failed.
C13_FailedCycleNotCounted ==
    [][\A w \in Workers :
          (w_pc[w] = "complete" /\ w_pc'[w] = "poll" /\ ~w_success[w])
              => /\ user_task'[w_task[w]].cycles_completed
                        = user_task[w_task[w]].cycles_completed
                 /\ user_task'[w_task[w]].status = FAILED]_vars

\* a task failed in its second cycle, after one cycle that succeeded
C13_Witness ==
    \E t \in TaskIds :
        /\ user_task[t].status = FAILED
        /\ user_task[t].cycles_completed = 1
        /\ \A w \in Workers : w_task[w] # t

\* C14: for every paper and task (the task's research topic) there is at
\* most one analysis, also after a later cycle of the task selects the paper
\* again.
C14_OneAnalysisPerPaperTask ==
    \A i, j \in DOMAIN paper_analysis :
        (paper_analysis[i].paper_id = paper_analysis[j].paper_id
            /\ paper_analysis[i].topic_id = paper_analysis[j].topic_id) => i = j

\* C15: ingesting the same arxiv id twice, in two cycles or by two workers
\* at once, leaves exactly one row of arxiv_paper with that id: no id is
\* stored twice, and a worker that goes on to the analysis of an item holds
\* the stored paper of the item's id.
C15_OnePaperPerSourceId ==
    /\ \A i, j \in DOMAIN arxiv_paper : arxiv_paper[i] = arxiv_paper[j] => i = j
    /\ \A w \in Workers :
           p_pc[w] \in {"create_analysis", "link"}
               => /\ p_paper[w] \in DOMAIN arxiv_paper
                  /\ arxiv_paper[p_paper[w]] = p_item[w].arxiv_id

\* two workers found no paper for the same arxiv id; one has inserted it and
\* the other is about to insert it too
C15_Witness ==
    \E w1, w2 \in Workers :
        /\ w1 # w2
        /\ p_pc[w1] = "create_analysis"
        /\ p_pc[w2] = "create_paper"
        /\ p_item[w1].arxiv_id = p_item[w2].arxiv_id
        /\ get_arxiv_paper_by_arxiv_id(arxiv_paper, p_item[w2].arxiv_id) = p_paper[w1]

\* C16: the status of an analysis changes only from analyzed to queued and
\* from queued to notified: never backwards, and never from analyzed to
\* notified directly.
C16_AnalysisStatusOrder ==
    [][\A i \in DOMAIN paper_analysis :
          \/ paper_analysis'[i].status = paper_analysis[i].status
          \/ paper_analysis[i].status = "analyzed" /\ paper_analysis'[i].status = "queued"
          \/ paper_analysis[i].status = "queued" /\ paper_analysis'[i].status = "notified"]_vars

\* C17: the report of an analysis is sent to the user at most once, also
\* when the bot process is restarted between or during polls.
C17_NotifiedAtMostOnce ==
    \A i \in DOMAIN paper_analysis : Count(delivered, i) <= 1

\* C18: every outbound row is rendered to the user exactly once on its way
\* from completed to sent: no row is rendered twice.
C18_RenderedOnce ==
    \A i \in DOMAIN outbound : Count(rendered, i) <= 1

\* C19: when the adapter of a source fails, the source contributes no
\* candidate and the cycle goes on with the other sources: the failure does
\* not end run_pipeline with an exception, which would fail the task.
C19_SourceFailureTolerated ==
    (pl_errors # {} /\ pl_pc \in {"returned", "failed"}) => task_success

\* C20: the strategy stage always returns a plan of at least one and at most
\* max_queries queries: it never raises, also when the agent failed after its
\* retries, answered with an empty plan, or is disabled by configuration.
C20_PlanAlwaysReturned ==
    /\ pl_raised # "strategy"
    /\ pl_pc \in {"collect", "returned"}
          => Len(pl_plan) >= 1 /\ Len(pl_plan) <= pl_task.max_queries

\* C21: the list collect_candidates builds from the pages of all queries holds
\* every id exactly once, its ids are the union of the ids of the pages, and
\* the candidate kept for an id is the first one encountered.
C21_MergeFirstWins ==
    /\ \A i, j \in DOMAIN pl_collected :
           pl_collected[i].arxiv_id = pl_collected[j].arxiv_id => i = j
    /\ {pl_collected[i].arxiv_id : i \in DOMAIN pl_collected}
           = UNION {{pl_pages[q][k] : k \in DOMAIN pl_pages[q]} : q \in DOMAIN pl_pages}
    /\ \A i \in DOMAIN pl_collected :
           LET c == pl_collected[i]
           IN  /\ c.query \in DOMAIN pl_pages
               /\ c.pos \in DOMAIN pl_pages[c.query]
               /\ pl_pages[c.query][c.pos] = c.arxiv_id
               /\ \A q \in DOMAIN pl_pages : \A k \in DOMAIN pl_pages[q] :
                      pl_pages[q][k] = c.arxiv_id
                          => q > c.query \/ (q = c.query /\ k >= c.pos)

\* an id returned twice, by two queries, after all queries were searched
C21_Witness ==
    /\ pl_pc = "returned"
    /\ \E q1, q2 \in DOMAIN pl_pages : \E k1 \in DOMAIN pl_pages[q1], k2 \in DOMAIN pl_pages[q2] :
           q1 < q2 /\ pl_pages[q1][k1] = pl_pages[q2][k2]
    /\ \E q \in DOMAIN pl_pages : \E k1, k2 \in DOMAIN pl_pages[q] :
           k1 < k2 /\ pl_pages[q][k1] = pl_pages[q][k2]

\* C22: retry_async calls func at most "attempts" times and stops at the
\* first success; before call k+1 it sleeps base_delay * 2^(k-1); after the
\* last failed attempt it raises that attempt's error without another sleep.
C22_RetryBackoff ==
    /\ Len(rt_calls) <= rt_attempts
    /\ \A k \in DOMAIN rt_calls : rt_calls[k] = "ok" => k = Len(rt_calls)
    /\ \A k \in DOMAIN rt_waits : rt_waits[k] = rt_base_delay * Pow2(k - 1)
    /\ rt_pc \in {"call", "done"} => Len(rt_waits) = Len(rt_calls) - (IF rt_pc = "done" THEN 1 ELSE 0)
    /\ rt_pc = "done" =>
           \/ /\ rt_result.kind = "returned"
              /\ rt_calls[Len(rt_calls)] = "ok"
           \/ /\ rt_result.kind = "raised"
              /\ Len(rt_calls) = rt_attempts
              /\ \A k \in DOMAIN rt_calls : rt_calls[k] # "ok"
              /\ rt_result.value = rt_calls[Len(rt_calls)]
              /\ Len(rt_waits) = rt_attempts - 1

\* three failures with different errors, then the last error is raised
C22_Witness ==
    /\ rt_pc = "done"
    /\ rt_attempts = 3
    /\ rt_calls = <<"timeout", "timeout", "rate_limited">>
    /\ rt_result = [kind |-> "raised", value |-> "rate_limited"]
    /\ rt_waits = <<rt_base_delay, 2 * rt_base_delay>>
    /\ rt_base_delay > 1

\* C23: at any moment the LLM calls in flight in one process are at most the
\* configured maximum, also when several pipeline runs execute concurrently
\* in the process.
C23_InFlightWithinMax ==
    Cardinality(InFlight) <= MaxConcurrent

\* the entries of a cache
CacheSet(cache) == {cache[i] : i \in DOMAIN cache}

\* C24: the analysis cache never holds more than 1000 entries; an insertion
\* that finds it full first evicts the 100 oldest-inserted entries, an
\* insertion that does not find it full evicts nothing, and no entry is
\* evicted while an entry inserted before it stays.
C24_CacheFifoBounded ==
    [][LET removed == CacheSet(analysis_cache) \ CacheSet(analysis_cache')
           stayed == CacheSet(analysis_cache) \cap CacheSet(analysis_cache')
       IN  /\ Len(analysis_cache') <= MaxCacheSize
           /\ Len(analysis_cache) >= MaxCacheSize
                 => removed = CacheSet(SubSeq(analysis_cache, 1, MaxCacheSize \div 10))
           /\ Len(analysis_cache) < MaxCacheSize => removed = {}
           /\ \A e \in removed : \A x \in stayed : e.inserted < x.inserted]_vars

\* the cache was full twice; the second time its oldest key was cached again
C24_Witness ==
    /\ cache_clock > MaxCacheSize + 100
    /\ Len(analysis_cache) = MaxCacheSize - 100 + 1
    /\ Head(analysis_cache).inserted > 200
    /\ analysis_cache[Len(analysis_cache)].key < Head(analysis_cache).key

\* C25: POST /v1/run runs one pipeline cycle and answers with its output
\* without touching the store: no step of the run creates or changes a task,
\* a queue entry, a user counter, a paper, an analysis, a finding or an
\* outbound message.
C25_RunTouchesNoStore ==
    [][pipe_vars' # pipe_vars
          => UNCHANGED <<user, user_task, task_queue, task_statistics, outbound,
                         paper_store, rate_limit_record>>]_vars

\* a run of the API has collected a candidate while the store holds an
\* analysis and an outbound message of the agent
C25_Witness ==
    /\ pl_pc = "returned"
    /\ pl_collected # <<>>
    /\ paper_analysis # <<>>
    /\ outbound # <<>>

\* C26: when start_task_processing returns False for the task a worker took
\* from the queue, the worker skips it: the task's status and
\* cycles_completed, the queue and the statistics stay exactly as they were
\* while the worker goes back to polling.
C26_SkipChangesNothing ==
    [][\A w \in Workers :
          (w_pc[w] = "skipped" /\ w_pc'[w] # "skipped")
              => /\ user_task'[w_task[w]] = user_task[w_task[w]]
                 /\ task_queue' = task_queue
                 /\ task_statistics' = task_statistics]_vars

\* C27: once the owner has set a task to cancelled, the worker starts no
\* further cycle of it, and a cycle that was in progress does not change its
\* status to queued, completed or failed: the status stays cancelled
C27_CancelledStaysCancelled ==
    [][\A t \in TaskIds :
          user_task[t].status = CANCELLED
              => /\ user_task'[t].status = CANCELLED
                 /\ \A w \in Workers :
                        (w_pc[w] # "pipeline" /\ w_pc'[w] = "pipeline")
                            => w_task'[w] # t]_vars

\* the cycle-limit notifications of task t in the outbound queue
CycleLimitNotifications(t) ==
    {i \in DOMAIN outbound :
        /\ outbound[i].task_type = "cycle_limit_notification"
        /\ outbound[i].task_id = t}

\* C28: a task whose status is completed has exactly one cycle-limit
\* notification and a task whose status is not completed has none (so a cycle
\* that returns the task to queued has emitted none)
C28_OneCycleLimitNotification ==
    \A t \in TaskIds :
        Cardinality(CycleLimitNotifications(t))
            = IF user_task[t].status = COMPLETED THEN 1 ELSE 0

\* the agent_report rows of the outbound queue
AgentReports(out) == {i \in DOMAIN out : out[i].task_type = "agent_report"}

\* C29: in a cycle that produces a report the agent_report row is created
\* before complete_task_processing is called: a report is only created by the
\* worker's step from the notification to the persistence, that step creates
\* it for the owner of the task, and every later step of the cycle, a failing
\* persistence and a failing or successful completion included, leaves it in
\* the outbound queue
C29_ReportBeforeCompletion ==
    [][\A w \in Workers :
          /\ AgentReports(outbound') # AgentReports(outbound)
                => \E v \in Workers : w_pc[v] = "notify" /\ w_pc'[v] = "persist"
          /\ (w_pc[w] = "notify" /\ w_pc'[w] = "persist")
                => outbound' = Append(outbound,
                                      AgentReport(user_task[w_task[w]].user_id))
          /\ (w_pc[w] \in {"persist", "complete"} /\ w_pc'[w] # w_pc[w])
                => \A i \in AgentReports(outbound) :
                       i \in DOMAIN outbound' /\ outbound'[i] = outbound[i]]_vars

\* the first cycle of a task has enqueued its report, has failed after that,
\* and the report is in the outbound queue of the failed task
C29_Witness ==
    \E t \in TaskIds :
        /\ user_task[t].status = FAILED
        /\ user_task[t].cycles_completed = 0
        /\ \A w \in Workers : w_task[w] # t
        /\ \E i \in AgentReports(outbound) :
               outbound[i].user_id = user_task[t].user_id

\* the tasks that have completed a cycle
TasksWithCompletedCycle == {t \in TaskIds : user_task[t].cycles_completed > 0}

\* C30: the Paper, Analysis and Finding rows of a cycle become visible
\* together with the completion of the cycle: a stored analysis or finding
\* belongs to a task that has completed a cycle, a paper is stored only when
\* some task has completed a cycle, and a failed cycle leaves no row
C30_RowsVisibleWithCompletion ==
    /\ \A i \in DOMAIN finding : finding[i].task_id \in TasksWithCompletedCycle
    /\ \A i \in DOMAIN paper_analysis :
           \E t \in TasksWithCompletedCycle : paper_analysis[i].topic_id = TopicOf(t)
    /\ arxiv_paper # <<>> => TasksWithCompletedCycle # {}

\* C31: each stored counter of a user and an action equals the number of
\* checks that passed in its window and is within the limit of the action,
\* also with concurrent checks (the clock stands still: one window)
C31_CountersMatchPassedChecks ==
    \A key \in CheckKeys :
        /\ rc_allowed[key] <= RateLimits(key[2]).minute
        /\ key \in DOMAIN rate_limit_record
              => /\ rate_limit_record[key].count_per_minute = rc_allowed[key]
                 /\ rate_limit_record[key].count_per_hour = rc_allowed[key]
                 /\ rate_limit_record[key].count_per_day = rc_allowed[key]
                 /\ rate_limit_record[key].count_per_minute
                        <= RateLimits(key[2]).minute
        /\ key \notin DOMAIN rate_limit_record => rc_allowed[key] = 0

\* C32: a cycle whose first retrieval collected nothing retries the retrieval
\* once with the broadened queries before it goes on; the retry is made only
\* after an empty first retrieval, and after it the queries are not changed
\* and the retrieval is not started again in the cycle
C32_OneBroadeningRetry ==
    [][/\ (pl_pc = "collect" /\ pl_pc' = "returned" /\ pl_collected = <<>>)
            => pl_broadened
       /\ (~pl_broadened /\ pl_broadened')
            => pl_collected = <<>> /\ pl_next > Len(pl_queries)
       /\ (pl_broadened /\ pl_pc' # "idle")
            => pl_broadened' /\ pl_queries' = pl_queries /\ pl_next' >= pl_next]_vars

\* C32, amended: the same, for a cycle whose queries have a broadened
\* variant; when every query of the plan has an empty text there is no
\* broadened query and the cycle goes on without a retry
C32_OneBroadeningRetryIfAny ==
    [][/\ (pl_pc = "collect" /\ pl_pc' = "returned" /\ pl_collected = <<>>)
            => pl_broadened \/ broadened(pl_queries) = <<>>
       /\ (~pl_broadened /\ pl_broadened')
            => pl_collected = <<>> /\ pl_next > Len(pl_queries)
       /\ (pl_broadened /\ pl_pc' # "idle")
            => pl_broadened' /\ pl_queries' = pl_queries /\ pl_next' >= pl_next]_vars

\* a cycle has returned after its retry with the broadened queries, which
\* differ from the queries of the plan
C32_Witness ==
    /\ pl_pc = "returned"
    /\ pl_broadened
    /\ pl_queries = broadened(pl_plan)
    /\ pl_queries # pl_plan

\* the lists that hold the candidates of l in another order
Reordered(l) ==
    {[i \in DOMAIN l |-> l[f[i]]] : f \in Permutations(DOMAIN l)}

\* C33: the ranking is ordered by score descending, then by the updated date
\* descending with the candidates without a date last, and the order of the
\* result does not depend on the order the candidates were supplied in
C33_RankingTotalOrder ==
    rk_pc = "ranked"
        => /\ \A i, j \in DOMAIN rk_out :
                  i < j => ~TupleLess(rank_key(rk_out[i]), rank_key(rk_out[j]))
           /\ \A l \in Reordered(rk_in) : rank_candidates(l, rk_top_k) = rk_out

\* C34: the decision stage selects only items whose score is at least
\* min_relevance, in descending order of the score, at most 3 of them, each an
\* analyzed result with its score; when none is selected the report has
\* should_notify false and no report_text
C34_SelectionAboveThreshold ==
    dc_pc \in {"selected", "returned"}
        => /\ Len(dc_selected) <= TopSelected
           /\ \A i \in DOMAIN dc_selected :
                  /\ dc_selected[i].overall_score >= dc_min
                  /\ dc_selected[i].overall_score = score_result(dc_selected[i].result)
                  /\ \E j \in DOMAIN dc_in : dc_in[j] = dc_selected[i].result
           /\ \A i, j \in DOMAIN dc_selected :
                  i < j => dc_selected[i].overall_score >= dc_selected[j].overall_score
           /\ (dc_pc = "returned" /\ dc_selected = <<>>)
                  => dc_report = DecisionReport(FALSE, NoReportText)

\* four analyzed results, one of them below the threshold: the three others
\* are selected, with different scores
C34_Witness ==
    /\ dc_pc = "returned"
    /\ Len(dc_in) = MaxAnalyzed
    /\ \E i \in DOMAIN dc_in : score_result(dc_in[i]) < dc_min
    /\ Len(dc_selected) = TopSelected
    /\ dc_selected[1].overall_score > dc_selected[TopSelected].overall_score

\* C35: a call of the LLM that ends with an error after its retries fails the
\* stage: the decision stage does not return a report made without the LLM
C35_LlmErrorFailsStage ==
    dc_llm = "error" => dc_pc # "returned"

\* C36: the completion of a cycle is recorded in the stored statistics: after
\* a successful cycle the stored count of processed tasks is one higher, after
\* a failed cycle the stored count of failures is one higher
C36_StatisticsRecordCycle ==
    [][\A w \in Workers :
          (w_pc[w] = "complete" /\ w_pc'[w] = "poll")
              => task_statistics' =
                     IF w_success[w]
                     THEN [task_statistics EXCEPT !.total_tasks_processed = @ + 1,
                                                  !.recent_completed_tasks = @ + 1]
                     ELSE [task_statistics EXCEPT !.recent_failed_tasks = @ + 1]]_vars

\* C37: the queue position in the answer to a created task is the rank of
\* the task in dispatch order among the queued tasks, as recomputed by
\* update_queue_positions
C37_ReturnedPositionIsRank ==
    [][\A h \in Handlers :
          (h_pc[h] = "created" /\ h_pc'[h] = "idle"
              /\ h_task[h] \in QueuedEntries(user_task', task_queue'))
              => h_position'[h]
                     = RankIn(task_queue', QueuedEntries(user_task', task_queue'),
                              h_task[h])]_vars

\* C38: the cleanup on startup deletes every queue entry of a completed,
\* failed or cancelled task, and no entry of a queued or processing task
C38_StartupCleanupOfTerminalTasks ==
    [][\A w \in Workers :
          (w_pc[w] = "startup" /\ w_pc'[w] = "poll")
              => /\ \A t \in DOMAIN task_queue' :
                        user_task[t].status \notin {COMPLETED, FAILED, CANCELLED}
                 /\ \A t \in DOMAIN task_queue :
                        user_task[t].status \in {QUEUED, PROCESSING}
                            => t \in DOMAIN task_queue']_vars

\* the status of task t, "none" before its row exists
StatusOfTask(t) == IF t \in TaskIds THEN user_task[t].status ELSE "none"

\* C39: a task that is processing when its worker stops does not stay
\* processing forever once the worker runs again: it is dispatched again
\* (queued) or brought to a terminal state
C39_ProcessingTaskRecovered ==
    \A t \in 1..MaxTasks :
        (StatusOfTask(t) = PROCESSING) ~> (StatusOfTask(t) # PROCESSING)

====
